---------------------------- MODULE Spec2Model ----------------------------
(***************************************************************************)
(* Inventory / point-of-sale backend: the sale transaction service         *)
(* (app/crud/sale.py), the stock operations of the product service         *)
(* (app/crud/product.py) and the endpoints that call them, over a          *)
(* relational store with READ COMMITTED transactions and row locks.        *)
(*                                                                         *)
(* Every request runs in its own ORM session (get_db).  A session keeps an *)
(* identity map: the first SELECT of a row loads its attributes, a later   *)
(* SELECT of the same row in the same session returns the object already   *)
(* loaded and does not overwrite its attributes (the session is built      *)
(* without populate_existing, and with autoflush=False nothing is sent to  *)
(* the store before commit).                                               *)
(***************************************************************************)
EXTENDS Integers, Sequences, FiniteSets, TLC

(***************************************************************************)
(* Bounds of the model.                                                    *)
(***************************************************************************)
\* the stock a product starts with, and the greatest quantity of an item
MaxStock == 2
\* the calendar days the clock passes through
MaxDay == 2
\* the requests the server takes in a run with concurrent workers
MaxRequests == 3
\* the requests the server takes in a run that serves one at a time
MaxSeqRequests == 3
\* the requests the server takes in a run of product operations
MaxCatalogRequests == 3
\* the requests the server takes in a run of creations and cancellations
MaxPayRequests == 3

(***************************************************************************)
(* Program constants.                                                      *)
(***************************************************************************)
\* f"{n:03d}": minimum number of digits of the sequence part of a sale number
PadWidth == 3
\* DECIMAL(10, 2): decimal places of a stored monetary column
MoneyScale == 2
\* Decimal('100'): divisor of a percentage
Hundred == 100

\* the ids of the rows the products table can have; the rows it has are
\* DOMAIN stock (a row is never removed: delete is a flag)
Products == {1, 2}
\* the product ids a request can name: 3 is the id of no row
ProductIds == {1, 2, 3}
\* concurrent requests, each with a session of its own
Reqs == {1, 2}

--------------------------------------------------------------------------
(***************************************************************************)
(* Decimal arithmetic.  An exact Decimal amount is an integer number of    *)
(* 10^-6 units; a stored DECIMAL(10,2) amount is an integer number of      *)
(* cents.  Unit prices are given in cents, percentages as integers, so     *)
(* every product and quotient of the code is exact at 10^-6: a subtotal is *)
(* a multiple of 10^4 units and a taxable amount of 10^2, and x * (p/100)  *)
(* is (x / 100) * p without a remainder.                                   *)
(***************************************************************************)
RECURSIVE Pow10(_)
Pow10(n) == IF n = 0 THEN 1 ELSE 10 * Pow10(n - 1)

\* exact units per stored unit (cent)
UnitsPerCent == Pow10(6 - MoneyScale)

\* Decimal(str(item_data.unit_price)) * item_data.quantity
subtotal(item_data) == item_data.unit_price * UnitsPerCent * item_data.quantity

\* subtotal * (Decimal(str(item_data.discount_percent)) / Decimal('100'))
discount_amount(item_data) ==
    (subtotal(item_data) \div Hundred) * item_data.discount_percent

taxable_amount(item_data) == subtotal(item_data) - discount_amount(item_data)

\* variant of tax_amount: the rate applied to the subtotal, before the discount
tax_amount_on_subtotal(item_data) ==
    (subtotal(item_data) \div Hundred) * item_data.tax_rate

\* taxable_amount * (Decimal(str(item_data.tax_rate)) / Decimal('100'))
tax_amount(item_data) == (taxable_amount(item_data) \div Hundred) * item_data.tax_rate

item_total(item_data) == taxable_amount(item_data) + tax_amount(item_data)

\* the value a DECIMAL(10,2) column keeps of an exact amount >= 0: rounded to
\* the nearest cent, ties away from zero
StoreDecimal(x) == (x + UnitsPerCent \div 2) \div UnitsPerCent

--------------------------------------------------------------------------
(***************************************************************************)
(* Sale numbers.  "SAL-<YYYYMMDD>-<seq>" is the record of its date and the *)
(* digit string of its sequence part; strings of one date are ordered as   *)
(* the store orders them (character by character, a proper prefix first).  *)
(***************************************************************************)
RECURSIVE Digits(_)
Digits(n) == IF n < 10 THEN <<n>> ELSE Append(Digits(n \div 10), n % 10)

RECURSIVE ZeroPad(_, _)
ZeroPad(ds, w) == IF Len(ds) >= w THEN ds ELSE ZeroPad(<<0>> \o ds, w)

\* f"{n:03d}"
Format03d(n) == ZeroPad(Digits(n), PadWidth)

RECURSIVE ParseInt(_)
\* int(s)
ParseInt(ds) ==
    IF Len(ds) = 0 THEN 0
    ELSE 10 * ParseInt(SubSeq(ds, 1, Len(ds) - 1)) + ds[Len(ds)]

RECURSIVE StrLess(_, _)
StrLess(a, b) ==
    IF Len(a) = 0 THEN Len(b) > 0
    ELSE IF Len(b) = 0 THEN FALSE
    ELSE IF a[1] # b[1] THEN a[1] < b[1]
    ELSE StrLess(Tail(a), Tail(b))

--------------------------------------------------------------------------
(***************************************************************************)
(* State.                                                                  *)
(***************************************************************************)
VARIABLES
    today,      \* the calendar day datetime.now() reports
    stock,      \* committed products.current_stock, by product id
    products,   \* committed products rows: their other columns, by product id
    sales,      \* committed sales rows with their items collection, by sale id
    sale_items, \* committed rows of the sale_items table
    nextId,     \* next value of the sales primary-key sequence
    req,        \* the request each worker is serving, with its session
    issued,     \* history: the sale numbers of the committed creations, in order
    served,     \* history: the number of requests accepted so far
    users,      \* committed users rows, by user id
    logins      \* history: the answers of POST /auth/login, in order

vars ==
    <<today, stock, products, sales, sale_items, nextId, req, issued, served,
      users, logins>>

\* a nullable column: None, or the value it holds
None == <<>>
Some(x) == <<x>>

\* the columns of a products row other than current_stock (prices in cents,
\* margin in percent, last_restocked as the day of its timestamp)
NoRow ==
    [cost_price |-> 0, selling_price |-> 0, margin |-> None,
     is_active |-> FALSE, last_restocked |-> None]

\* an attribute set of a Product object in a session's identity map: the
\* current_stock it loaded and has now, the other columns it loaded and has now
Unloaded == [has |-> FALSE, loaded |-> 0, cur |-> 0, row |-> NoRow, obj |-> NoRow]
EmptySession == [p \in Products |-> Unloaded]
NoNumber == [date |-> 0, seq |-> <<>>]

Idle ==
    [kind |-> "idle", pc |-> "idle", items |-> <<>>, sale_id |-> 0,
     status |-> "", payment_method |-> "", payment_status |-> "",
     idx |-> 0, sess |-> EmptySession, locks |-> {}, sale |-> <<>>,
     number |-> NoNumber, built |-> <<>>,
     total_amount |-> 0, total_tax |-> 0, total_discount |-> 0,
     ok |-> FALSE, msg |-> ""]

\* the worker whose transaction holds the row lock of product p, if any
LockedByOther(r, p) == \E o \in Reqs \ {r} : p \in req[o].locks

\* db.query(Product).filter(Product.id == product_id).first() in a session:
\* a row not yet in the identity map is loaded with its committed value, a
\* row already there keeps the attributes the session has
Get(sess, p) ==
    IF sess[p].has THEN sess
    ELSE [sess EXCEPT ![p] = [has |-> TRUE, loaded |-> stock[p], cur |-> stock[p],
                              row |-> products[p], obj |-> products[p]]]

\* db.query(Product).with_for_update().filter(...).first(): the SELECT ... FOR
\* UPDATE returns the current row, and the session maps it as any other query
WithForUpdateGet(sess, p) == Get(sess, p)

\* CheckConstraint('current_stock >= 0')
check_current_stock_positive(current_stock) == current_stock >= 0

\* CheckConstraint('selling_price >= cost_price')
check_selling_price_gte_cost(row) == row.selling_price >= row.cost_price

\* float(((selling_price - cost_price) / cost_price) * 100), for cost_price > 0;
\* the prices of the model's requests make the quotient a whole percentage
margin(cost_price, selling_price) ==
    ((selling_price - cost_price) * Hundred) \div cost_price

\* CRUDProduct.create: the columns of the row it inserts on this day
CreatedRow(product, day) ==
    [cost_price |-> product.cost_price,
     selling_price |-> product.selling_price,
     margin |-> IF product.cost_price > 0
                THEN Some(margin(product.cost_price, product.selling_price))
                ELSE None,
     is_active |-> product.is_active,
     last_restocked |-> IF product.current_stock > 0 THEN Some(day) ELSE None]

\* the body of a POST /products request
ProductCreate(cost_price, selling_price, current_stock) ==
    [cost_price |-> cost_price, selling_price |-> selling_price,
     current_stock |-> current_stock, is_active |-> TRUE]

\* the products the store starts with were created on day 1 with this stock
ListPrice == [cost_price |-> 100, selling_price |-> 150]
InitialProducts(current_stock) ==
    [p \in Products |->
        CreatedRow(ProductCreate(ListPrice.cost_price, ListPrice.selling_price,
                                 current_stock), 1)]

\* the rows a flush of the session updates: attributes whose value changed
Dirty(sess) ==
    {p \in Products : sess[p].has /\ (sess[p].cur # sess[p].loaded
                                        \/ sess[p].obj # sess[p].row)}

\* UPDATE products SET current_stock = <session value> for every dirty row
Flushed(sess) ==
    [p \in DOMAIN stock |->
        IF sess[p].has /\ sess[p].cur # sess[p].loaded THEN sess[p].cur ELSE stock[p]]

\* the other columns of the products rows after the same flush
FlushedProducts(sess) ==
    [p \in DOMAIN products |->
        IF ~sess[p].has THEN products[p]
        ELSE LET row == sess[p].row
                 obj == sess[p].obj
                 old == products[p]
             IN [cost_price |-> IF obj.cost_price # row.cost_price
                                THEN obj.cost_price ELSE old.cost_price,
                 selling_price |-> IF obj.selling_price # row.selling_price
                                   THEN obj.selling_price ELSE old.selling_price,
                 margin |-> IF obj.margin # row.margin THEN obj.margin ELSE old.margin,
                 is_active |-> IF obj.is_active # row.is_active
                               THEN obj.is_active ELSE old.is_active,
                 last_restocked |-> IF obj.last_restocked # row.last_restocked
                                    THEN obj.last_restocked ELSE old.last_restocked]]

\* a flush waits for the row locks other transactions hold on its rows
CanFlush(r) == \A p \in Dirty(req[r].sess) : ~LockedByOther(r, p)

\* the request's answer; the transaction is left as it is until get_db closes
Answer(q, ok, msg) == [q EXCEPT !.pc = "done", !.ok = ok, !.msg = msg]

\* db.rollback() (or the end of a committed transaction): the session's
\* objects are expired and the transaction's row locks released
EndTransaction(q) ==
    [q EXCEPT !.sess = EmptySession, !.locks = {}, !.sale = <<>>, !.built = <<>>,
              !.total_amount = 0, !.total_tax = 0, !.total_discount = 0]

Init ==
    /\ today = 1
    /\ stock \in [Products -> {MaxStock}]
    /\ products = InitialProducts(MaxStock)
    /\ sales = <<>>
    /\ sale_items = {}
    /\ nextId = 1
    /\ req = [r \in Reqs |-> Idle]
    /\ issued = <<>>
    /\ served = 0
    /\ users = <<>>
    /\ logins = <<>>

--------------------------------------------------------------------------
(***************************************************************************)
(* Sale creation: POST /sales (create_sale) and CRUDSale.create.           *)
(***************************************************************************)
\* the sales rows whose number matches LIKE 'SAL-<day>-%'
SalesOfDay(day) == {i \in DOMAIN sales : sales[i].sale_number.date = day}

\* ORDER BY sale_number DESC ... first(): the row with the greatest string
last_sale(day) ==
    CHOOSE i \in SalesOfDay(day) :
        \A j \in SalesOfDay(day) :
            ~StrLess(sales[i].sale_number.seq, sales[j].sale_number.seq)

\* variant of generate_sale_number: the query without its LIKE filter, so the
\* latest number of any day is continued
generate_sale_number_all_days(day) ==
    IF DOMAIN sales # {}
    THEN LET last == CHOOSE i \in DOMAIN sales :
                        \A j \in DOMAIN sales :
                            ~StrLess(sales[i].sale_number.seq, sales[j].sale_number.seq)
         IN [date |-> day,
             seq |-> Format03d(ParseInt(sales[last].sale_number.seq) + 1)]
    ELSE [date |-> day, seq |-> Format03d(1)]

generate_sale_number(day) ==
    IF SalesOfDay(day) # {}
    THEN [date |-> day,
          seq |-> Format03d(ParseInt(sales[last_sale(day)].sale_number.seq) + 1)]
    ELSE [date |-> day, seq |-> Format03d(1)]

\* the sale_items row of an item: every DECIMAL(10,2) column keeps two places
StoredItem(item_data) ==
    [product_id |-> item_data.product_id,
     quantity |-> item_data.quantity,
     unit_price |-> item_data.unit_price,
     tax_rate |-> item_data.tax_rate,
     discount_percent |-> item_data.discount_percent,
     subtotal |-> StoreDecimal(subtotal(item_data)),
     discount_amount |-> StoreDecimal(discount_amount(item_data)),
     tax_amount |-> StoreDecimal(tax_amount(item_data)),
     total |-> StoreDecimal(item_total(item_data))]

\* the sale_items rows of a sale: SaleItem(sale=db_sale, ...), sale_id its
\* foreign key, in the order the items were added
SaleItemRows(sale_id, items) ==
    {[sale_id |-> sale_id, line |-> k, item |-> items[k]] : k \in DOMAIN items}

\* variant of StoredSale: a cash sale is stored as paid whatever its status
StoredSaleCashPaid(q) ==
    [sale_number |-> q.number,
     status |-> q.status,
     payment_method |-> q.payment_method,
     payment_status |-> IF q.payment_method = "cash" THEN "paid" ELSE q.payment_status,
     total_amount |-> StoreDecimal(q.total_amount),
     tax_amount |-> StoreDecimal(q.total_tax),
     discount_amount |-> StoreDecimal(q.total_discount),
     grand_total |-> StoreDecimal(q.total_amount + q.total_tax - q.total_discount),
     items |-> [k \in DOMAIN q.built |-> StoredItem(q.built[k])]]

\* the sales row of the session's new sale with its items
StoredSale(q) ==
    [sale_number |-> q.number,
     status |-> q.status,
     payment_method |-> q.payment_method,
     payment_status |->
         IF q.payment_method = "cash" /\ q.status = "completed"
         THEN "paid" ELSE q.payment_status,
     total_amount |-> StoreDecimal(q.total_amount),
     tax_amount |-> StoreDecimal(q.total_tax),
     discount_amount |-> StoreDecimal(q.total_discount),
     grand_total |-> StoreDecimal(q.total_amount + q.total_tax - q.total_discount),
     items |-> [k \in DOMAIN q.built |-> StoredItem(q.built[k])]]

\* a request arrives: the body passed the schema's validation
CreateSaleRequest(r, its, st, pm, ps) ==
    /\ req[r].pc = "idle"
    /\ req' = [req EXCEPT ![r] =
                 [Idle EXCEPT !.kind = "create", !.pc = "precheck", !.items = its,
                              !.status = st, !.payment_method = pm,
                              !.payment_status = ps, !.idx = 1]]
    /\ UNCHANGED <<users, logins, today, products, sale_items, stock, sales, nextId, issued>>

\* create_sale, one turn of "for item in sale.items": an unlocked read
CreateSalePrecheck(r) ==
    /\ req[r].kind = "create" /\ req[r].pc = "precheck"
    /\ LET q == req[r]
           item == q.items[q.idx]
           p == item.product_id
       IN IF p \notin DOMAIN stock
          THEN req' = [req EXCEPT ![r] = Answer(q, FALSE, "Product ID not found")]
          ELSE LET s1 == Get(q.sess, p)
                   q1 == [q EXCEPT !.sess = s1]
               IN IF s1[p].cur < item.quantity
                  THEN req' = [req EXCEPT ![r] = Answer(q1, FALSE, "Insufficient stock")]
                  ELSE IF q.idx < Len(q.items)
                  THEN req' = [req EXCEPT ![r] = [q1 EXCEPT !.idx = q.idx + 1]]
                  ELSE req' = [req EXCEPT ![r] = [q1 EXCEPT !.pc = "generate"]]
    /\ UNCHANGED <<users, logins, today, products, sale_items, stock, sales, nextId, issued, served>>

\* CRUDSale.create up to the loop: the number and the new Sale object
CreateGenerate(r) ==
    /\ req[r].kind = "create" /\ req[r].pc = "generate"
    /\ req' = [req EXCEPT ![r] =
                 [req[r] EXCEPT !.number = generate_sale_number(today),
                                !.pc = "items", !.idx = 1]]
    /\ UNCHANGED <<users, logins, today, products, sale_items, stock, sales, nextId, issued, served>>

\* the items of a request in ascending order of product_id
ByProductId(items) ==
    LET order == CHOOSE f \in Permutations(DOMAIN items) :
                    \A i, j \in DOMAIN items :
                        i < j => items[f[i]].product_id <= items[f[j]].product_id
    IN [k \in DOMAIN items |-> items[order[k]]]

\* variant of CreateItem: the loop goes through the items sorted by product_id,
\* so every creation takes its row locks in the same order
CreateItemSorted(r) ==
    /\ req[r].kind = "create" /\ req[r].pc = "items"
    /\ LET q == req[r]
           item_data == ByProductId(q.items)[q.idx]
           p == item_data.product_id
       IN IF p \notin DOMAIN stock
          THEN req' = [req EXCEPT ![r] = Answer(q, FALSE, "Product ID not found")]
          ELSE /\ ~LockedByOther(r, p)
               /\ LET s1 == WithForUpdateGet(q.sess, p)
                      q1 == [q EXCEPT !.sess = s1, !.locks = q.locks \cup {p}]
                  IN IF s1[p].cur < item_data.quantity
                     THEN req' = [req EXCEPT ![r] =
                                    Answer(q1, FALSE, "Insufficient stock")]
                     ELSE req' = [req EXCEPT ![r] =
                            [q1 EXCEPT
                               !.built = Append(q.built, item_data),
                               !.total_amount = q.total_amount + subtotal(item_data),
                               !.total_tax = q.total_tax + tax_amount(item_data),
                               !.total_discount =
                                   q.total_discount + discount_amount(item_data),
                               !.sess = [s1 EXCEPT ![p].cur =
                                            s1[p].cur - item_data.quantity],
                               !.idx = q.idx + 1,
                               !.pc = IF q.idx < Len(q.items)
                                      THEN "items" ELSE "commit"]]
    /\ UNCHANGED <<users, logins, today, products, sale_items, stock, sales, nextId, issued, served>>

\* variant of CreateItem: the stock test reads the stock the row had when the
\* session loaded it, not the object the earlier turns have decremented
CreateItemTestingLoaded(r) ==
    /\ req[r].kind = "create" /\ req[r].pc = "items"
    /\ LET q == req[r]
           item_data == q.items[q.idx]
           p == item_data.product_id
       IN IF p \notin DOMAIN stock
          THEN req' = [req EXCEPT ![r] = Answer(q, FALSE, "Product ID not found")]
          ELSE /\ ~LockedByOther(r, p)
               /\ LET s1 == WithForUpdateGet(q.sess, p)
                      q1 == [q EXCEPT !.sess = s1, !.locks = q.locks \cup {p}]
                  IN IF s1[p].loaded < item_data.quantity
                     THEN req' = [req EXCEPT ![r] =
                                    Answer(q1, FALSE, "Insufficient stock")]
                     ELSE req' = [req EXCEPT ![r] =
                            [q1 EXCEPT
                               !.built = Append(q.built, item_data),
                               !.total_amount = q.total_amount + subtotal(item_data),
                               !.total_tax = q.total_tax + tax_amount(item_data),
                               !.total_discount =
                                   q.total_discount + discount_amount(item_data),
                               !.sess = [s1 EXCEPT ![p].cur =
                                            s1[p].cur - item_data.quantity],
                               !.idx = q.idx + 1,
                               !.pc = IF q.idx < Len(q.items)
                                      THEN "items" ELSE "commit"]]
    /\ UNCHANGED <<users, logins, today, products, sale_items, stock, sales, nextId, issued, served>>

\* CRUDSale.create, one turn of "for item_data in sale.items"
CreateItem(r) ==
    /\ req[r].kind = "create" /\ req[r].pc = "items"
    /\ LET q == req[r]
           item_data == q.items[q.idx]
           p == item_data.product_id
       IN IF p \notin DOMAIN stock
          THEN req' = [req EXCEPT ![r] = Answer(q, FALSE, "Product ID not found")]
          ELSE /\ ~LockedByOther(r, p)
               /\ LET s1 == WithForUpdateGet(q.sess, p)
                      q1 == [q EXCEPT !.sess = s1, !.locks = q.locks \cup {p}]
                  IN IF s1[p].cur < item_data.quantity
                     THEN req' = [req EXCEPT ![r] =
                                    Answer(q1, FALSE, "Insufficient stock")]
                     ELSE req' = [req EXCEPT ![r] =
                            [q1 EXCEPT
                               !.built = Append(q.built, item_data),
                               !.total_amount = q.total_amount + subtotal(item_data),
                               !.total_tax = q.total_tax + tax_amount(item_data),
                               !.total_discount =
                                   q.total_discount + discount_amount(item_data),
                               !.sess = [s1 EXCEPT ![p].cur =
                                            s1[p].cur - item_data.quantity],
                               !.idx = q.idx + 1,
                               !.pc = IF q.idx < Len(q.items)
                                      THEN "items" ELSE "commit"]]
    /\ UNCHANGED <<users, logins, today, products, sale_items, stock, sales, nextId, issued, served>>

\* variant of CreateCommit: the products are updated in a transaction of their
\* own, so a failing INSERT of the sale leaves the decrements committed
CreateCommitKeepingUpdates(r) ==
    /\ req[r].kind = "create" /\ req[r].pc = "commit"
    /\ CanFlush(r)
    /\ LET q == req[r]
           row == StoredSale(q)
           duplicate == \E i \in DOMAIN sales : sales[i].sale_number = row.sale_number
       IN /\ nextId' = nextId + 1
          /\ stock' = Flushed(q.sess)
          /\ IF duplicate
             THEN /\ req' = [req EXCEPT ![r] =
                              Answer(EndTransaction(q), FALSE, "Error creating sale")]
                  /\ UNCHANGED <<sales, sale_items, issued>>
             ELSE /\ sales' = [i \in DOMAIN sales \cup {nextId} |->
                                 IF i = nextId THEN row ELSE sales[i]]
                  /\ sale_items' = sale_items \cup SaleItemRows(nextId, row.items)
                  /\ issued' = Append(issued, row.sale_number)
                  /\ req' = [req EXCEPT ![r] =
                              Answer(EndTransaction(q), TRUE, "Sale created successfully")]
    /\ UNCHANGED <<users, logins, today, products, served>>

\* variant of CreateCommit: sales.sale_number without its unique key
CreateCommitNoUniqueKey(r) ==
    /\ req[r].kind = "create" /\ req[r].pc = "commit"
    /\ CanFlush(r)
    /\ LET q == req[r]
           row == StoredSale(q)
       IN /\ nextId' = nextId + 1
          /\ stock' = Flushed(q.sess)
          /\ sales' = [i \in DOMAIN sales \cup {nextId} |->
                         IF i = nextId THEN row ELSE sales[i]]
          /\ sale_items' = sale_items \cup SaleItemRows(nextId, row.items)
          /\ issued' = Append(issued, row.sale_number)
          /\ req' = [req EXCEPT ![r] =
                      Answer(EndTransaction(q), TRUE, "Sale created successfully")]
    /\ UNCHANGED <<users, logins, today, products, served>>

\* db.add(db_sale); db.commit(): INSERT the sale and its items, UPDATE the
\* products, in one transaction; an IntegrityError lands in the except clause
CreateCommit(r) ==
    /\ req[r].kind = "create" /\ req[r].pc = "commit"
    /\ CanFlush(r)
    /\ LET q == req[r]
           row == StoredSale(q)
           duplicate == \E i \in DOMAIN sales : sales[i].sale_number = row.sale_number
           violated == \E p \in DOMAIN stock :
                          ~check_current_stock_positive(Flushed(q.sess)[p])
       IN /\ nextId' = nextId + 1
          /\ IF duplicate \/ violated
             THEN /\ req' = [req EXCEPT ![r] =
                              Answer(EndTransaction(q), FALSE, "Error creating sale")]
                  /\ UNCHANGED <<stock, sales, sale_items, issued>>
             ELSE /\ stock' = Flushed(q.sess)
                  /\ sales' = [i \in DOMAIN sales \cup {nextId} |->
                                 IF i = nextId THEN row ELSE sales[i]]
                  /\ sale_items' = sale_items \cup SaleItemRows(nextId, row.items)
                  /\ issued' = Append(issued, row.sale_number)
                  /\ req' = [req EXCEPT ![r] =
                              Answer(EndTransaction(q), TRUE, "Sale created successfully")]
    /\ UNCHANGED <<users, logins, today, products, served>>

\* variant of Close: the session is committed, not discarded, when it closes
CloseCommitting(r) ==
    /\ req[r].pc = "done"
    /\ stock' = Flushed(req[r].sess)
    /\ req' = [req EXCEPT ![r] = Idle]
    /\ UNCHANGED <<users, logins, today, products, sale_items, sales, nextId, issued, served>>

\* get_db: "finally: db.close()" ends whatever transaction is open
Close(r) ==
    /\ req[r].pc = "done"
    /\ req' = [req EXCEPT ![r] = Idle]
    /\ UNCHANGED <<users, logins, today, products, sale_items, stock, sales, nextId, issued, served>>

\* midnight passes
NextDay ==
    /\ today < MaxDay
    /\ today' = today + 1
    /\ UNCHANGED <<users, logins, stock, products, sales, sale_items, nextId, req,
                   issued, served>>

--------------------------------------------------------------------------
(***************************************************************************)
(* Sale cancellation: POST /sales/{id}/cancel and CRUDSale.cancel.         *)
(***************************************************************************)
CancelRequest(r, sid) ==
    /\ req[r].pc = "idle"
    /\ req' = [req EXCEPT ![r] =
                 [Idle EXCEPT !.kind = "cancel", !.pc = "get", !.sale_id = sid]]
    /\ UNCHANGED <<users, logins, today, products, sale_items, stock, sales, nextId, issued>>

\* variant of CancelGet: without the "already cancelled" early return
CancelGetUnchecked(r) ==
    /\ req[r].kind = "cancel" /\ req[r].pc = "get"
    /\ LET q == req[r] IN
       IF q.sale_id \notin DOMAIN sales
       THEN req' = [req EXCEPT ![r] = Answer(q, FALSE, "Sale not found")]
       ELSE req' = [req EXCEPT ![r] =
                      [q EXCEPT !.sale = <<sales[q.sale_id]>>, !.idx = 1,
                                !.pc = "restore"]]
    /\ UNCHANGED <<users, logins, today, products, sale_items, stock, sales, nextId, issued, served>>

\* db_sale = self.get(db, sale_id), the two early returns, db_sale.items
CancelGet(r) ==
    /\ req[r].kind = "cancel" /\ req[r].pc = "get"
    /\ LET q == req[r] IN
       IF q.sale_id \notin DOMAIN sales
       THEN req' = [req EXCEPT ![r] = Answer(q, FALSE, "Sale not found")]
       ELSE IF sales[q.sale_id].status = "cancelled"
       THEN req' = [req EXCEPT ![r] = Answer(q, FALSE, "Sale is already cancelled")]
       ELSE req' = [req EXCEPT ![r] =
                      [q EXCEPT !.sale = <<sales[q.sale_id]>>, !.idx = 1,
                                !.pc = "restore"]]
    /\ UNCHANGED <<users, logins, today, products, sale_items, stock, sales, nextId, issued, served>>

\* variant of CancelRestore: every turn starts again from the committed stock
CancelRestoreFromCommitted(r) ==
    /\ req[r].kind = "cancel" /\ req[r].pc = "restore"
    /\ LET q == req[r]
           item == q.sale[1].items[q.idx]
           p == item.product_id
           s1 == Get(q.sess, p)
       IN req' = [req EXCEPT ![r] =
                    [q EXCEPT !.sess = [s1 EXCEPT ![p].cur = stock[p] + item.quantity],
                              !.idx = q.idx + 1,
                              !.pc = IF q.idx < Len(q.sale[1].items)
                                     THEN "restore" ELSE "commit"]]
    /\ UNCHANGED <<users, logins, today, products, sale_items, stock, sales, nextId, issued, served>>

\* variant of CancelRestore: the stock of a soft-deleted product is not restored
CancelRestoreActiveOnly(r) ==
    /\ req[r].kind = "cancel" /\ req[r].pc = "restore"
    /\ LET q == req[r]
           item == q.sale[1].items[q.idx]
           p == item.product_id
           s1 == Get(q.sess, p)
           s2 == IF s1[p].obj.is_active
                 THEN [s1 EXCEPT ![p].cur = s1[p].cur + item.quantity] ELSE s1
       IN req' = [req EXCEPT ![r] =
                    [q EXCEPT !.sess = s2,
                              !.idx = q.idx + 1,
                              !.pc = IF q.idx < Len(q.sale[1].items)
                                     THEN "restore" ELSE "commit"]]
    /\ UNCHANGED <<users, logins, today, products, sale_items, stock, sales, nextId, issued, served>>

\* one turn of "for item in db_sale.items": an unlocked read, then the increment
CancelRestore(r) ==
    /\ req[r].kind = "cancel" /\ req[r].pc = "restore"
    /\ LET q == req[r]
           item == q.sale[1].items[q.idx]
           p == item.product_id
           s1 == Get(q.sess, p)
       IN req' = [req EXCEPT ![r] =
                    [q EXCEPT !.sess = [s1 EXCEPT ![p].cur = s1[p].cur + item.quantity],
                              !.idx = q.idx + 1,
                              !.pc = IF q.idx < Len(q.sale[1].items)
                                     THEN "restore" ELSE "commit"]]
    /\ UNCHANGED <<users, logins, today, products, sale_items, stock, sales, nextId, issued, served>>

\* variant of cancelled_payment_status: a status other than paid is kept
cancelled_payment_status_kept(payment_status) ==
    IF payment_status = "paid" THEN "refunded" ELSE payment_status

\* the payment_status a cancellation leaves, from the one the session loaded
cancelled_payment_status(payment_status) ==
    IF payment_status = "paid" THEN "refunded" ELSE "pending"

\* an UPDATE writes the columns whose value the session changed
Written(committed, loaded, new) == IF new # loaded THEN new ELSE committed

\* variant of CancelCommit: the cancelled sale is emptied, its totals set to
\* zero and its items removed
CancelCommitVoiding(r) ==
    /\ req[r].kind = "cancel" /\ req[r].pc = "commit"
    /\ CanFlush(r)
    /\ LET q == req[r]
           sid == q.sale_id
           old == q.sale[1]
       IN IF sid \notin DOMAIN sales
          THEN /\ req' = [req EXCEPT ![r] =
                           Answer(EndTransaction(q), FALSE, "Error cancelling sale")]
               /\ UNCHANGED <<stock, sales, sale_items>>
          ELSE /\ stock' = Flushed(q.sess)
               /\ sales' = [sales EXCEPT
                     ![sid].status = "cancelled",
                     ![sid].payment_status = cancelled_payment_status(old.payment_status),
                     ![sid].total_amount = 0,
                     ![sid].tax_amount = 0,
                     ![sid].discount_amount = 0,
                     ![sid].grand_total = 0,
                     ![sid].items = <<>>]
               /\ sale_items' = {it \in sale_items : it.sale_id # sid}
               /\ req' = [req EXCEPT ![r] =
                           Answer([EndTransaction(q) EXCEPT !.sale = q.sale],
                                  TRUE, "Sale cancelled successfully")]
    /\ UNCHANGED <<users, logins, today, products, nextId, issued, served>>

\* db_sale.status = "cancelled"; payment_status; db.commit(); the answered
\* request keeps, as history, the sale as the cancellation had loaded it
CancelCommit(r) ==
    /\ req[r].kind = "cancel" /\ req[r].pc = "commit"
    /\ CanFlush(r)
    /\ LET q == req[r]
           sid == q.sale_id
           old == q.sale[1]
           violated == \E p \in DOMAIN stock :
                          ~check_current_stock_positive(Flushed(q.sess)[p])
       IN IF sid \notin DOMAIN sales \/ violated
          THEN /\ req' = [req EXCEPT ![r] =
                           Answer(EndTransaction(q), FALSE, "Error cancelling sale")]
               /\ UNCHANGED <<stock, sales>>
          ELSE /\ stock' = Flushed(q.sess)
               /\ sales' = [sales EXCEPT
                     ![sid].status = Written(@, old.status, "cancelled"),
                     ![sid].payment_status =
                         Written(@, old.payment_status,
                                 cancelled_payment_status(old.payment_status))]
               /\ req' = [req EXCEPT ![r] =
                           Answer([EndTransaction(q) EXCEPT !.sale = q.sale],
                                  TRUE, "Sale cancelled successfully")]
    /\ UNCHANGED <<users, logins, today, products, sale_items, nextId, issued, served>>

--------------------------------------------------------------------------
(***************************************************************************)
(* Sale update and delete: PUT and DELETE /sales/{id}.                     *)
(* update_data is the set of (field, value) pairs the request sets.        *)
(***************************************************************************)
SaleUpdateRequest(r, sid, update_data) ==
    /\ req[r].pc = "idle"
    /\ req' = [req EXCEPT ![r] =
                 [Idle EXCEPT !.kind = "sale_update", !.pc = "get", !.sale_id = sid,
                              !.items = <<update_data>>]]
    /\ UNCHANGED <<users, logins, today, products, sale_items, stock, sales, nextId, issued>>

\* variant of SaleUpdateGet: without the return for a completed or cancelled sale
SaleUpdateGetUnchecked(r) ==
    /\ req[r].kind = "sale_update" /\ req[r].pc = "get"
    /\ LET q == req[r] IN
       IF q.sale_id \notin DOMAIN sales
       THEN req' = [req EXCEPT ![r] = Answer(q, FALSE, "Sale not found")]
       ELSE req' = [req EXCEPT ![r] =
                      [q EXCEPT !.sale = <<sales[q.sale_id]>>, !.pc = "commit"]]
    /\ UNCHANGED <<users, logins, today, products, sale_items, stock, sales, nextId, issued, served>>

\* db_sale = self.get(db, sale_id) and the two early returns of CRUDSale.update
SaleUpdateGet(r) ==
    /\ req[r].kind = "sale_update" /\ req[r].pc = "get"
    /\ LET q == req[r] IN
       IF q.sale_id \notin DOMAIN sales
       THEN req' = [req EXCEPT ![r] = Answer(q, FALSE, "Sale not found")]
       ELSE IF sales[q.sale_id].status \in {"completed", "cancelled"}
       THEN req' = [req EXCEPT ![r] =
                      Answer(q, FALSE, "Cannot update " \o sales[q.sale_id].status \o " sale")]
       ELSE req' = [req EXCEPT ![r] =
                      [q EXCEPT !.sale = <<sales[q.sale_id]>>, !.pc = "commit"]]
    /\ UNCHANGED <<users, logins, today, products, sale_items, stock, sales, nextId, issued, served>>

\* setattr(db_sale, field, value) for the fields set; the others keep theirs
Updated(update_data, field, loaded) ==
    IF \E u \in update_data : u[1] = field
    THEN (CHOOSE u \in update_data : u[1] = field)[2]
    ELSE loaded

SaleUpdateCommit(r) ==
    /\ req[r].kind = "sale_update" /\ req[r].pc = "commit"
    /\ LET q == req[r]
           sid == q.sale_id
           old == q.sale[1]
           update_data == q.items[1]
       IN IF sid \notin DOMAIN sales
          THEN /\ req' = [req EXCEPT ![r] =
                           Answer(EndTransaction(q), FALSE, "Internal Server Error")]
               /\ UNCHANGED sales
          ELSE /\ sales' = [sales EXCEPT
                     ![sid].status =
                         Written(@, old.status, Updated(update_data, "status", old.status)),
                     ![sid].payment_status =
                         Written(@, old.payment_status,
                                 Updated(update_data, "payment_status", old.payment_status)),
                     ![sid].payment_method =
                         Written(@, old.payment_method,
                                 Updated(update_data, "payment_method", old.payment_method))]
               /\ req' = [req EXCEPT ![r] =
                           Answer(EndTransaction(q), TRUE, "Sale updated successfully")]
    /\ UNCHANGED <<users, logins, today, products, sale_items, stock, nextId, issued, served>>

SaleDeleteRequest(r, sid) ==
    /\ req[r].pc = "idle"
    /\ req' = [req EXCEPT ![r] =
                 [Idle EXCEPT !.kind = "sale_delete", !.pc = "get", !.sale_id = sid]]
    /\ UNCHANGED <<users, logins, today, products, sale_items, stock, sales, nextId, issued>>

\* variant of SaleDeleteGet: without the test of the status
SaleDeleteGetAnyStatus(r) ==
    /\ req[r].kind = "sale_delete" /\ req[r].pc = "get"
    /\ LET q == req[r] IN
       IF q.sale_id \notin DOMAIN sales
       THEN req' = [req EXCEPT ![r] =
                      Answer(q, FALSE, "Only draft sales can be deleted or sale not found")]
       ELSE req' = [req EXCEPT ![r] =
                      [q EXCEPT !.sale = <<sales[q.sale_id]>>, !.pc = "commit"]]
    /\ UNCHANGED <<users, logins, today, products, sale_items, stock, sales, nextId, issued, served>>

SaleDeleteGet(r) ==
    /\ req[r].kind = "sale_delete" /\ req[r].pc = "get"
    /\ LET q == req[r] IN
       IF q.sale_id \notin DOMAIN sales \/ sales[q.sale_id].status # "draft"
       THEN req' = [req EXCEPT ![r] =
                      Answer(q, FALSE, "Only draft sales can be deleted or sale not found")]
       ELSE req' = [req EXCEPT ![r] =
                      [q EXCEPT !.sale = <<sales[q.sale_id]>>, !.pc = "commit"]]
    /\ UNCHANGED <<users, logins, today, products, sale_items, stock, sales, nextId, issued, served>>

\* variant of SaleDeleteCommit: the items relationship without its cascade
SaleDeleteCommitKeepingItems(r) ==
    /\ req[r].kind = "sale_delete" /\ req[r].pc = "commit"
    /\ LET q == req[r]
           sid == q.sale_id
       IN IF sid \notin DOMAIN sales
          THEN /\ req' = [req EXCEPT ![r] =
                           Answer(EndTransaction(q), FALSE, "Internal Server Error")]
               /\ UNCHANGED sales
          ELSE /\ sales' = [i \in DOMAIN sales \ {sid} |-> sales[i]]
               /\ req' = [req EXCEPT ![r] = Answer(EndTransaction(q), TRUE, "")]
    /\ UNCHANGED <<users, logins, today, products, sale_items, stock, nextId, issued, served>>

\* db.delete(db_sale); db.commit(): the sale row and, by the cascade, its items
SaleDeleteCommit(r) ==
    /\ req[r].kind = "sale_delete" /\ req[r].pc = "commit"
    /\ LET q == req[r]
           sid == q.sale_id
       IN IF sid \notin DOMAIN sales
          THEN /\ req' = [req EXCEPT ![r] =
                           Answer(EndTransaction(q), FALSE, "Internal Server Error")]
               /\ UNCHANGED <<sales, sale_items>>
          ELSE /\ sales' = [i \in DOMAIN sales \ {sid} |-> sales[i]]
               /\ sale_items' = {it \in sale_items : it.sale_id # sid}
               /\ req' = [req EXCEPT ![r] = Answer(EndTransaction(q), TRUE, "")]
    /\ UNCHANGED <<users, logins, today, products, stock, nextId, issued, served>>

--------------------------------------------------------------------------
(***************************************************************************)
(* Stock adjustment and product update (app/crud/product.py).              *)
(***************************************************************************)
UpdateStockRequest(r, product_id, quantity) ==
    /\ req[r].pc = "idle"
    /\ req' = [req EXCEPT ![r] =
                 [Idle EXCEPT !.kind = "update_stock", !.pc = "get",
                              !.items = <<[product_id |-> product_id,
                                           quantity |-> quantity]>>]]
    /\ UNCHANGED <<users, logins, today, products, sale_items, stock, sales, nextId, issued>>

\* variant of Restocked: the timestamp is set whatever the sign of the quantity
RestockedAlways(object, quantity) ==
    [object EXCEPT !.obj.last_restocked = Some(today)]

\* "if quantity > 0: db_product.last_restocked = datetime.now()" on a loaded
\* Product object
Restocked(object, quantity) ==
    IF quantity > 0 THEN [object EXCEPT !.obj.last_restocked = Some(today)] ELSE object

\* CRUDProduct.update_stock up to db.commit()
UpdateStockGet(r) ==
    /\ req[r].kind = "update_stock" /\ req[r].pc = "get"
    /\ LET q == req[r]
           p == q.items[1].product_id
       IN IF p \notin DOMAIN stock
          THEN req' = [req EXCEPT ![r] =
                         Answer(q, FALSE, "Product not found or insufficient stock")]
          ELSE LET s1 == Get(q.sess, p)
                   new_stock == s1[p].cur + q.items[1].quantity
               IN IF new_stock < 0
                  THEN req' = [req EXCEPT ![r] =
                         Answer([q EXCEPT !.sess = s1], FALSE,
                                "Product not found or insufficient stock")]
                  ELSE req' = [req EXCEPT ![r] =
                         [q EXCEPT !.sess = [s1 EXCEPT ![p] =
                                        Restocked([@ EXCEPT !.cur = new_stock],
                                                  q.items[1].quantity)],
                                   !.pc = "commit"]]
    /\ UNCHANGED <<users, logins, today, products, sale_items, stock, sales, nextId, issued, served>>

\* db.commit() of a session that changed products only; a violated check
\* constraint raises, and nothing of the transaction is kept
ProductsCommit(r, kind, msg) ==
    /\ req[r].kind = kind /\ req[r].pc = "commit"
    /\ CanFlush(r)
    /\ LET q == req[r]
           violated == \E p \in DOMAIN stock :
                          \/ ~check_current_stock_positive(Flushed(q.sess)[p])
                          \/ ~check_selling_price_gte_cost(FlushedProducts(q.sess)[p])
       IN IF violated
          THEN /\ req' = [req EXCEPT ![r] =
                           Answer(EndTransaction(q), FALSE, "Internal Server Error")]
               /\ UNCHANGED <<stock, products>>
          ELSE /\ stock' = Flushed(q.sess)
               /\ products' = FlushedProducts(q.sess)
               /\ req' = [req EXCEPT ![r] = Answer(EndTransaction(q), TRUE, msg)]
    /\ UNCHANGED <<users, logins, today, sale_items, sales, nextId, issued, served>>

UpdateStockCommit(r) == ProductsCommit(r, "update_stock", "")

\* variant of update_stock: without its "new_stock < 0" return, on a table
\* without the check constraint
UpdateStockUnguarded(r) ==
    \/ /\ req[r].kind = "update_stock" /\ req[r].pc = "get"
       /\ LET q == req[r]
              p == q.items[1].product_id
          IN IF p \notin DOMAIN stock
             THEN req' = [req EXCEPT ![r] =
                            Answer(q, FALSE, "Product not found or insufficient stock")]
             ELSE LET s1 == Get(q.sess, p)
                  IN req' = [req EXCEPT ![r] =
                        [q EXCEPT !.sess = [s1 EXCEPT ![p] =
                                      Restocked([@ EXCEPT !.cur = @ + q.items[1].quantity],
                                                q.items[1].quantity)],
                                  !.pc = "commit"]]
       /\ UNCHANGED <<users, logins, today, products, sale_items, stock, sales, nextId, issued, served>>
    \/ /\ req[r].kind = "update_stock" /\ req[r].pc = "commit"
       /\ CanFlush(r)
       /\ stock' = Flushed(req[r].sess)
       /\ products' = FlushedProducts(req[r].sess)
       /\ req' = [req EXCEPT ![r] = Answer(EndTransaction(req[r]), TRUE, "")]
       /\ UNCHANGED <<users, logins, today, sale_items, sales, nextId, issued, served>>

\* CRUDProduct.update_stock
UpdateStock(r) == UpdateStockGet(r) \/ UpdateStockCommit(r)

\* stock_updates: the (product_id, quantity) pairs of the body, in its order
BulkUpdateStockRequest(r, stock_updates) ==
    /\ req[r].pc = "idle"
    /\ req' = [req EXCEPT ![r] =
                 [Idle EXCEPT !.kind = "bulk_update_stock", !.pc = "items",
                              !.items = stock_updates, !.idx = 1]]
    /\ UNCHANGED <<users, logins, today, products, sale_items, stock, sales, nextId, issued>>

\* CRUDProduct.bulk_update_stock, one turn of the loop; built holds results
BulkUpdateStockItem(r) ==
    /\ req[r].kind = "bulk_update_stock" /\ req[r].pc = "items"
    /\ LET q == req[r]
           p == q.items[q.idx].product_id
           quantity == q.items[q.idx].quantity
           s1 == IF p \in DOMAIN stock THEN Get(q.sess, p) ELSE q.sess
           applies == p \in DOMAIN stock /\ s1[p].cur + quantity >= 0
           s2 == IF applies
                 THEN [s1 EXCEPT ![p] = Restocked([@ EXCEPT !.cur = @ + quantity], quantity)]
                 ELSE s1
       IN req' = [req EXCEPT ![r] =
                    [q EXCEPT !.sess = s2,
                              !.built = Append(q.built, [product_id |-> p, ok |-> applies]),
                              !.idx = q.idx + 1,
                              !.pc = IF q.idx < Len(q.items) THEN "items" ELSE "commit"]]
    /\ UNCHANGED <<users, logins, today, products, sale_items, stock, sales, nextId, issued, served>>

\* variant of BulkUpdateStockCommit: nothing is committed when a pair failed
BulkUpdateStockAllOrNothing(r) ==
    /\ req[r].kind = "bulk_update_stock" /\ req[r].pc = "commit"
    /\ CanFlush(r)
    /\ LET q == req[r]
           results == q.built
           all_ok == \A k \in DOMAIN results : results[k].ok
       IN IF ~all_ok
          THEN /\ req' = [req EXCEPT ![r] =
                     [Answer(EndTransaction(q), FALSE, "Failed to update stock for products")
                        EXCEPT !.built = results]]
               /\ UNCHANGED <<stock, products>>
          ELSE /\ stock' = Flushed(q.sess)
               /\ products' = FlushedProducts(q.sess)
               /\ req' = [req EXCEPT ![r] =
                     [Answer(EndTransaction(q), TRUE, "Stock updated successfully")
                        EXCEPT !.built = results]]
    /\ UNCHANGED <<users, logins, today, sale_items, sales, nextId, issued, served>>

\* db.commit(); the endpoint then answers 400 if any pair failed
BulkUpdateStockCommit(r) ==
    /\ req[r].kind = "bulk_update_stock" /\ req[r].pc = "commit"
    /\ CanFlush(r)
    /\ LET q == req[r]
           violated == \E p \in DOMAIN stock :
                          ~check_current_stock_positive(Flushed(q.sess)[p])
           results == q.built
           all_ok == \A k \in DOMAIN results : results[k].ok
       IN IF violated
          THEN /\ req' = [req EXCEPT ![r] =
                           Answer(EndTransaction(q), FALSE, "Internal Server Error")]
               /\ UNCHANGED <<stock, products>>
          ELSE /\ stock' = Flushed(q.sess)
               /\ products' = FlushedProducts(q.sess)
               /\ req' = [req EXCEPT ![r] =
                     [Answer(EndTransaction(q), all_ok,
                             IF all_ok THEN "Stock updated successfully"
                             ELSE "Failed to update stock for products")
                        EXCEPT !.built = results]]
    /\ UNCHANGED <<users, logins, today, sale_items, sales, nextId, issued, served>>

\* PUT /products/{id}: update_data is the set of (field, value) pairs set
ProductUpdateRequest(r, product_id, update_data) ==
    /\ req[r].pc = "idle"
    /\ req' = [req EXCEPT ![r] =
                 [Idle EXCEPT !.kind = "product_update", !.pc = "get",
                              !.items = <<[product_id |-> product_id,
                                           update_data |-> update_data]>>]]
    /\ UNCHANGED <<users, logins, today, products, sale_items, stock, sales, nextId, issued>>

\* CRUDProduct.update up to db.commit()
ProductUpdateGet(r) ==
    /\ req[r].kind = "product_update" /\ req[r].pc = "get"
    /\ LET q == req[r]
           p == q.items[1].product_id
       IN IF p \notin DOMAIN stock
          THEN req' = [req EXCEPT ![r] = Answer(q, FALSE, "Product not found")]
          ELSE LET s1 == Get(q.sess, p)
                   update_data == q.items[1].update_data
                   db_product == s1[p].obj
                   cost_price == Updated(update_data, "cost_price", db_product.cost_price)
                   selling_price ==
                       Updated(update_data, "selling_price", db_product.selling_price)
                   priced == \E u \in update_data : u[1] \in {"cost_price", "selling_price"}
                   obj == [db_product EXCEPT
                             !.cost_price = cost_price,
                             !.selling_price = selling_price,
                             !.margin = IF priced /\ cost_price > 0
                                        THEN Some(margin(cost_price, selling_price))
                                        ELSE @,
                             !.is_active = Updated(update_data, "is_active", @)]
                   v == Updated(update_data, "current_stock", s1[p].cur)
               IN req' = [req EXCEPT ![r] =
                         [q EXCEPT !.sess = [s1 EXCEPT ![p].cur = v, ![p].obj = obj],
                                   !.pc = "commit"]]
    /\ UNCHANGED <<users, logins, today, products, sale_items, stock, sales, nextId, issued, served>>

ProductUpdateCommit(r) == ProductsCommit(r, "product_update", "")

\* DELETE /products/{id}
ProductDeleteRequest(r, product_id) ==
    /\ req[r].pc = "idle"
    /\ req' = [req EXCEPT ![r] =
                 [Idle EXCEPT !.kind = "product_delete", !.pc = "get",
                              !.items = <<[product_id |-> product_id]>>]]
    /\ UNCHANGED <<users, logins, today, products, sale_items, stock, sales, nextId, issued>>

\* CRUDProduct.delete up to db.commit(): the row is marked, not removed
ProductDeleteGet(r) ==
    /\ req[r].kind = "product_delete" /\ req[r].pc = "get"
    /\ LET q == req[r]
           p == q.items[1].product_id
       IN IF p \notin DOMAIN stock
          THEN req' = [req EXCEPT ![r] = Answer(q, FALSE, "Product not found")]
          ELSE LET s1 == Get(q.sess, p)
               IN req' = [req EXCEPT ![r] =
                         [q EXCEPT !.sess = [s1 EXCEPT ![p].obj.is_active = FALSE],
                                   !.pc = "commit"]]
    /\ UNCHANGED <<users, logins, today, products, sale_items, stock, sales, nextId, issued, served>>

ProductDeleteCommit(r) == ProductsCommit(r, "product_delete", "")

\* POST /products: product is the validated body (selling_price >= cost_price)
ProductCreateRequest(r, product) ==
    /\ req[r].pc = "idle"
    /\ DOMAIN stock # Products
    /\ req' = [req EXCEPT ![r] =
                 [Idle EXCEPT !.kind = "product_create", !.pc = "commit",
                              !.items = <<product>>]]
    /\ UNCHANGED <<users, logins, today, products, sale_items, stock, sales, nextId, issued>>

\* CRUDProduct.create: INSERT of the row under the next id, and db.commit()
ProductCreateCommit(r) ==
    /\ req[r].kind = "product_create" /\ req[r].pc = "commit"
    /\ LET q == req[r]
           product == q.items[1]
           id == Cardinality(DOMAIN stock) + 1
       IN /\ stock' = [p \in DOMAIN stock \cup {id} |->
                         IF p = id THEN product.current_stock ELSE stock[p]]
          /\ products' = [p \in DOMAIN products \cup {id} |->
                            IF p = id THEN CreatedRow(product, today) ELSE products[p]]
          /\ req' = [req EXCEPT ![r] = Answer(EndTransaction(q), TRUE, "")]
    /\ UNCHANGED <<users, logins, today, sale_items, sales, nextId, issued, served>>

--------------------------------------------------------------------------
\* a lower-level failure of an open transaction (lost connection, statement
\* timeout, deadlock victim): CRUDSale.create and CRUDSale.cancel catch it and
\* roll back, the others let it pass to the framework; get_db closes the session
Raise(r) ==
    /\ req[r].pc \in {"generate", "items", "restore", "commit"}
    /\ req' = [req EXCEPT ![r] =
                 Answer(EndTransaction(req[r]), FALSE,
                        IF req[r].kind = "create" THEN "Error creating sale"
                        ELSE IF req[r].kind = "cancel" THEN "Error cancelling sale"
                        ELSE "Internal Server Error")]
    /\ UNCHANGED <<users, logins, today, products, sale_items, stock, sales, nextId, issued, served>>

--------------------------------------------------------------------------
(***************************************************************************)
(* The requests of the model and the server that takes them.               *)
(***************************************************************************)
\* an item of a request body: the model's requests share one price list
Item(p, n) ==
    [product_id |-> p, quantity |-> n, unit_price |-> 10, tax_rate |-> 18,
     discount_percent |-> 5]

Quantities == 1..MaxStock
SaleIds == 1..MaxRequests

\* the server hands a request to its first free worker
Accept(r, limit) ==
    /\ served < limit
    /\ served' = served + 1
    /\ \A o \in Reqs : o < r => req[o].pc # "idle"

Step(r) ==
    \/ CreateSalePrecheck(r)
    \/ CreateGenerate(r)
    \/ CreateItem(r)
    \/ CreateCommit(r)
    \/ CancelGet(r)
    \/ CancelRestore(r)
    \/ CancelCommit(r)
    \/ UpdateStock(r)
    \/ BulkUpdateStockItem(r)
    \/ BulkUpdateStockCommit(r)
    \/ ProductUpdateGet(r)
    \/ ProductUpdateCommit(r)
    \/ Raise(r)
    \/ Close(r)

(***************************************************************************)
(* Spec: concurrent requests on the stock of the products.                 *)
(***************************************************************************)
ItemLists ==
    {<<Item(1, n)>> : n \in Quantities}
    \cup {<<Item(1, 1), Item(2, 1)>>, <<Item(2, 1), Item(1, 1)>>}

StockUpdateLists ==
    {<<[product_id |-> 1, quantity |-> 1], [product_id |-> 2, quantity |-> d]>> :
        d \in {-1, 0 - MaxStock - 1}}

NewCreateSale ==
    \E r \in Reqs : \E its \in ItemLists :
        Accept(r, MaxRequests) /\ CreateSaleRequest(r, its, "completed", "cash", "pending")
NewCancel ==
    \E r \in Reqs : \E sid \in SaleIds : Accept(r, MaxRequests) /\ CancelRequest(r, sid)
NewUpdateStock ==
    \E r \in Reqs : \E d \in {-1, 1} :
        Accept(r, MaxRequests) /\ UpdateStockRequest(r, 1, d)
NewBulkUpdateStock ==
    \E r \in Reqs : \E u \in StockUpdateLists :
        Accept(r, MaxRequests) /\ BulkUpdateStockRequest(r, u)
NewProductUpdate ==
    \E r \in Reqs : \E v \in {0, MaxStock} :
        Accept(r, MaxRequests) /\ ProductUpdateRequest(r, 1, {<<"current_stock", v>>})

Next ==
    \/ NewCreateSale
    \/ NewCancel
    \/ NewUpdateStock
    \/ NewBulkUpdateStock
    \/ NewProductUpdate
    \/ \E r \in Reqs : Step(r)

Spec == Init /\ [][Next]_vars

(***************************************************************************)
(* SalesSpec: concurrent sale creations only.                              *)
(***************************************************************************)
SalesItemLists ==
    ItemLists \cup {<<Item(1, 1), Item(1, MaxStock)>>, <<Item(3, 1)>>,
                    <<Item(2, 1), Item(3, 1)>>}

SalesNewCreateSale ==
    \E r \in Reqs : \E its \in SalesItemLists :
        Accept(r, MaxRequests) /\ CreateSaleRequest(r, its, "completed", "cash", "pending")

SalesStep(r) ==
    \/ CreateSalePrecheck(r)
    \/ CreateGenerate(r)
    \/ CreateItem(r)
    \/ CreateCommit(r)
    \/ Raise(r)
    \/ Close(r)

SalesNext == SalesNewCreateSale \/ \E r \in Reqs : SalesStep(r)

SalesSpec == Init /\ [][SalesNext]_vars

(***************************************************************************)
(* SeqSpec: one request at a time, every operation on sales and stock.     *)
(***************************************************************************)
\* the server takes a request when the one before it has been answered
AcceptSeq(r) ==
    /\ served < MaxSeqRequests
    /\ served' = served + 1
    /\ r = 1
    /\ \A o \in Reqs : req[o].pc = "idle"

SeqItemLists ==
    {<<Item(p, 1)>> : p \in ProductIds}
    \cup {<<Item(1, MaxStock)>>, <<Item(1, 1), Item(1, 1)>>, <<Item(1, 1), Item(2, 1)>>,
          <<Item(1, 1), Item(1, MaxStock)>>}
SeqSaleIds == 1..MaxSeqRequests
SeqSaleUpdates == {{<<"status", "completed">>}, {<<"payment_status", "paid">>}}

SeqNewCreateSale ==
    \E r \in Reqs : \E its \in SeqItemLists : \E st \in {"completed", "draft"} :
        /\ st = "draft" => its = <<Item(1, 1)>>
        /\ AcceptSeq(r) /\ CreateSaleRequest(r, its, st, "cash", "pending")
SeqNewCancel ==
    \E r \in Reqs : \E sid \in SeqSaleIds : AcceptSeq(r) /\ CancelRequest(r, sid)
SeqNewSaleUpdate ==
    \E r \in Reqs : \E sid \in SeqSaleIds : \E u \in SeqSaleUpdates :
        AcceptSeq(r) /\ SaleUpdateRequest(r, sid, u)
SeqNewSaleDelete ==
    \E r \in Reqs : \E sid \in SeqSaleIds : AcceptSeq(r) /\ SaleDeleteRequest(r, sid)
SeqNewUpdateStock ==
    \E r \in Reqs : \E p \in {1, 3} : \E d \in {0 - MaxStock - 1, 1} :
        AcceptSeq(r) /\ UpdateStockRequest(r, p, d)
SeqNewBulkUpdateStock ==
    \E r \in Reqs : \E u \in StockUpdateLists :
        AcceptSeq(r) /\ BulkUpdateStockRequest(r, u)
SeqNewProductUpdate ==
    \E r \in Reqs : \E p \in {1, 3} : \E u \in {{}, {<<"current_stock", 0>>}} :
        AcceptSeq(r) /\ ProductUpdateRequest(r, p, u)

SeqNewProductDelete ==
    \E r \in Reqs : AcceptSeq(r) /\ ProductDeleteRequest(r, 1)

SeqStep(r) ==
    \/ Step(r)
    \/ SaleUpdateGet(r)
    \/ SaleUpdateCommit(r)
    \/ SaleDeleteGet(r)
    \/ SaleDeleteCommit(r)
    \/ ProductDeleteGet(r)
    \/ ProductDeleteCommit(r)

SeqNext ==
    \/ SeqNewCreateSale
    \/ SeqNewCancel
    \/ SeqNewSaleUpdate
    \/ SeqNewSaleDelete
    \/ SeqNewUpdateStock
    \/ SeqNewBulkUpdateStock
    \/ SeqNewProductUpdate
    \/ SeqNewProductDelete
    \/ \E r \in Reqs : SeqStep(r)
    \/ NextDay

SeqSpec == Init /\ [][SeqNext]_vars

(***************************************************************************)
(* MoneySpec: one request at a time, sales of priced items against a stock *)
(* of 50, and their cancellation.                                          *)
(***************************************************************************)
MoneyItem(q, u, t, d) ==
    [product_id |-> 1, quantity |-> q, unit_price |-> u, tax_rate |-> t,
     discount_percent |-> d]

\* unit prices 0.10 and 75.00
MoneyItems ==
    {MoneyItem(q, u, t, d) : q \in {1, 10}, u \in {10, 7500}, t \in {0, 18}, d \in {0, 5}}

MoneyItemLists ==
    {<<it>> : it \in MoneyItems}
    \cup {<<MoneyItem(1, 10, 18, 5), MoneyItem(1, 33, 18, 5)>>,
          <<MoneyItem(1, 10, 0, 5), MoneyItem(1, 10, 0, 5)>>}

MoneyInit ==
    /\ today = 1
    /\ stock = [p \in Products |-> 50]
    /\ products = InitialProducts(50)
    /\ sale_items = {}
    /\ sales = <<>>
    /\ nextId = 1
    /\ req = [r \in Reqs |-> Idle]
    /\ issued = <<>>
    /\ served = 0
    /\ users = <<>>
    /\ logins = <<>>

MoneyNewCreateSale ==
    \E r \in Reqs : \E its \in MoneyItemLists :
        AcceptSeq(r) /\ CreateSaleRequest(r, its, "completed", "cash", "pending")
MoneyNewCancel ==
    \E r \in Reqs : \E sid \in SeqSaleIds : AcceptSeq(r) /\ CancelRequest(r, sid)

MoneyStep(r) ==
    \/ CreateSalePrecheck(r)
    \/ CreateGenerate(r)
    \/ CreateItem(r)
    \/ CreateCommit(r)
    \/ CancelGet(r)
    \/ CancelRestore(r)
    \/ CancelCommit(r)
    \/ Raise(r)
    \/ Close(r)

MoneyNext == MoneyNewCreateSale \/ MoneyNewCancel \/ \E r \in Reqs : MoneyStep(r)

MoneySpec == MoneyInit /\ [][MoneyNext]_vars

(***************************************************************************)
(* NumberSpec: one sale creation at a time, on a day with no sale yet or   *)
(* on a day whose sales are two short of the first number wider than the   *)
(* padding, and on the day after.                                          *)
(***************************************************************************)
\* the sales rows after i sequential creations of one unit on the first day
NumberedSale(i) ==
    StoredSale([Idle EXCEPT !.number = [date |-> 1, seq |-> Format03d(i)],
                            !.status = "completed", !.payment_method = "cash",
                            !.payment_status = "pending", !.built = <<Item(1, 1)>>,
                            !.total_amount = subtotal(Item(1, 1)),
                            !.total_tax = tax_amount(Item(1, 1)),
                            !.total_discount = discount_amount(Item(1, 1))])

NumberInit ==
    \E n \in {0, Pow10(PadWidth) - 2} :
        /\ today = 1
        /\ stock = [p \in Products |-> MaxSeqRequests]
        /\ products = InitialProducts(MaxSeqRequests)
        /\ sales = [i \in 1..n |-> NumberedSale(i)]
        /\ sale_items = UNION {SaleItemRows(i, NumberedSale(i).items) : i \in 1..n}
        /\ nextId = n + 1
        /\ req = [r \in Reqs |-> Idle]
        /\ issued = [i \in 1..n |-> [date |-> 1, seq |-> Format03d(i)]]
        /\ served = 0
        /\ users = <<>>
        /\ logins = <<>>

NumberNewCreateSale ==
    \E r \in Reqs : \E p \in Products :
        AcceptSeq(r) /\ CreateSaleRequest(r, <<Item(p, 1)>>, "completed", "cash", "pending")

NumberNext ==
    \/ NumberNewCreateSale
    \/ \E r \in Reqs : SalesStep(r)
    \/ NextDay

NumberSpec == NumberInit /\ [][NumberNext]_vars

(***************************************************************************)
(* PaySpec: sale creations with every requested status, two payment        *)
(* methods and every payment status, and cancellations, one at a time.     *)
(***************************************************************************)
AcceptPay(r) ==
    /\ served < MaxPayRequests
    /\ served' = served + 1
    /\ r = 1
    /\ \A o \in Reqs : req[o].pc = "idle"

SaleStatus == {"draft", "completed", "cancelled"}
PayMethods == {"cash", "card"}
PaymentStatus == {"pending", "paid", "partial", "refunded"}

PayNewCreateSale ==
    \E r \in Reqs : \E st \in SaleStatus : \E pm \in PayMethods : \E ps \in PaymentStatus :
        AcceptPay(r) /\ CreateSaleRequest(r, <<Item(1, 1)>>, st, pm, ps)
PayNewCancel ==
    \E r \in Reqs : \E sid \in 1..MaxPayRequests : AcceptPay(r) /\ CancelRequest(r, sid)

PayStep(r) ==
    \/ CreateSalePrecheck(r)
    \/ CreateGenerate(r)
    \/ CreateItem(r)
    \/ CreateCommit(r)
    \/ CancelGet(r)
    \/ CancelRestore(r)
    \/ CancelCommit(r)
    \/ Raise(r)
    \/ Close(r)

PayNext == PayNewCreateSale \/ PayNewCancel \/ \E r \in Reqs : PayStep(r)

PaySpec == Init /\ [][PayNext]_vars

(***************************************************************************)
(* CatalogSpec: the product operations, one request at a time, on a table  *)
(* that starts with product 1 and over more than one day.                  *)
(***************************************************************************)
CatalogInit ==
    /\ today = 1
    /\ stock = [p \in {1} |-> MaxStock]
    /\ products = [p \in {1} |-> InitialProducts(MaxStock)[p]]
    /\ sales = <<>>
    /\ sale_items = {}
    /\ nextId = 1
    /\ req = [r \in Reqs |-> Idle]
    /\ issued = <<>>
    /\ served = 0
    /\ users = <<>>
    /\ logins = <<>>

AcceptCatalog(r) ==
    /\ served < MaxCatalogRequests
    /\ served' = served + 1
    /\ r = 1
    /\ \A o \in Reqs : req[o].pc = "idle"

\* bodies of POST /products: with and without a cost price and a stock
CatalogProductCreates ==
    {ProductCreate(ListPrice.cost_price, ListPrice.selling_price, MaxStock),
     ProductCreate(0, ListPrice.selling_price, 0)}

\* bodies of PUT /products/{id}
CatalogProductUpdates ==
    {{<<"selling_price", 2 * ListPrice.cost_price>>},
     {<<"cost_price", 0>>},
     {<<"cost_price", ListPrice.cost_price \div 2>>,
      <<"selling_price", ListPrice.cost_price>>},
     {<<"current_stock", 0>>}}

CatalogNewProductCreate ==
    \E r \in Reqs : \E product \in CatalogProductCreates :
        AcceptCatalog(r) /\ ProductCreateRequest(r, product)
CatalogNewProductUpdate ==
    \E r \in Reqs : \E p \in {1, 3} : \E u \in CatalogProductUpdates :
        AcceptCatalog(r) /\ ProductUpdateRequest(r, p, u)
CatalogNewProductDelete ==
    \E r \in Reqs : \E p \in {1, 3} :
        AcceptCatalog(r) /\ ProductDeleteRequest(r, p)
CatalogNewUpdateStock ==
    \E r \in Reqs : \E p \in {1, 3} : \E d \in {0 - MaxStock - 1, -1, 1} :
        AcceptCatalog(r) /\ UpdateStockRequest(r, p, d)
CatalogNewBulkUpdateStock ==
    \E r \in Reqs : \E u \in StockUpdateLists :
        AcceptCatalog(r) /\ BulkUpdateStockRequest(r, u)

CatalogStep(r) ==
    \/ ProductCreateCommit(r)
    \/ ProductUpdateGet(r)
    \/ ProductUpdateCommit(r)
    \/ ProductDeleteGet(r)
    \/ ProductDeleteCommit(r)
    \/ UpdateStock(r)
    \/ BulkUpdateStockItem(r)
    \/ BulkUpdateStockCommit(r)
    \/ Raise(r)
    \/ Close(r)

CatalogNext ==
    \/ CatalogNewProductCreate
    \/ CatalogNewProductUpdate
    \/ CatalogNewProductDelete
    \/ CatalogNewUpdateStock
    \/ CatalogNewBulkUpdateStock
    \/ \E r \in Reqs : CatalogStep(r)
    \/ NextDay

CatalogSpec == CatalogInit /\ [][CatalogNext]_vars

--------------------------------------------------------------------------
(***************************************************************************)
(* Properties.                                                             *)
(***************************************************************************)
\* the quantity of product p in a list of items
RECURSIVE QuantityOf(_, _)
QuantityOf(items, p) ==
    IF Len(items) = 0 THEN 0
    ELSE (IF Head(items).product_id = p THEN Head(items).quantity ELSE 0)
         + QuantityOf(Tail(items), p)

\* the quantity of product p in the items of the sales with ids in S
RECURSIVE QuantityIn(_, _)
QuantityIn(S, p) ==
    IF S = {} THEN 0
    ELSE LET i == CHOOSE i \in S : TRUE
         IN QuantityOf(sales[i].items, p) + QuantityIn(S \ {i}, p)

RECURSIVE SubtotalSum(_)
SubtotalSum(items) ==
    IF Len(items) = 0 THEN 0 ELSE Head(items).subtotal + SubtotalSum(Tail(items))

\* the step of worker r that ends its request kind with a result
Finishes(r, kind) ==
    req[r].kind = kind /\ req[r].pc # "done" /\ req'[r].pc = "done"
\* a step of worker r while it serves a request of this kind
Moves(r, kind) == req[r].kind = kind /\ req'[r] # req[r]
\* the result worker r's request has, or had before its session closed
Result(r) == IF req[r].pc = "done" THEN req[r] ELSE req'[r]

CreateSucceeds(r) == Finishes(r, "create") /\ req'[r].ok
CancelSucceeds(r) == Finishes(r, "cancel") /\ req'[r].ok

\* C1: with sale creations running concurrently, the quantities of a product
\* in the committed sales never exceed the stock it had, and every committed
\* decrement is in the committed stock: stock = initial stock - quantity sold.
C1_NoOversellNoLostDecrement ==
    \A p \in Products :
        /\ QuantityIn(DOMAIN sales, p) <= MaxStock
        /\ stock[p] = MaxStock - QuantityIn(DOMAIN sales, p)

\* the results of a creation refused for its items
C2_Rejections == {"Insufficient stock", "Product ID not found"}

\* C2: a sale creation with an item that asks for more than the product's
\* stock, or that names an unknown product, fails; and no step of a creation
\* that is answered "insufficient stock" or "product not found", the closing
\* of its session included, changes the committed stock or the sales.
C2_RejectedCreateChangesNothing ==
    [][\A r \in Reqs :
         /\ Finishes(r, "create") =>
               LET its == req[r].items
                   unknown == \E k \in DOMAIN its : its[k].product_id \notin DOMAIN stock
                   short == \E k \in DOMAIN its :
                               /\ its[k].product_id \in Products
                               /\ its[k].quantity > stock[its[k].product_id]
               IN (unknown \/ short) =>
                      /\ ~req'[r].ok
                      /\ req'[r].msg \in C2_Rejections \cup {"Error creating sale"}
         /\ (Moves(r, "create") /\ (req[r].pc = "done" \/ req'[r].pc = "done")
               /\ Result(r).msg \in C2_Rejections) =>
               /\ ~Result(r).ok
               /\ UNCHANGED <<stock, sales>>
      ]_vars
\* a creation rejected for stock after an earlier item of it was decremented
\* in the session
C2_Witness ==
    \E r \in Reqs :
        /\ req[r].kind = "create" /\ req[r].pc = "done" /\ ~req[r].ok
        /\ req[r].msg = "Insufficient stock"
        /\ Dirty(req[r].sess) # {}

\* C3: a sale creation that ends in the except clause ("Error creating sale")
\* is rolled back: the step that raises changes neither the committed stock
\* nor the sales and empties the session, and closing the session afterwards
\* changes nothing either.
C3_FailedCreateRolledBack ==
    [][\A r \in Reqs :
         (Moves(r, "create") /\ (req[r].pc = "done" \/ req'[r].pc = "done")
            /\ Result(r).msg = "Error creating sale") =>
            /\ ~Result(r).ok
            /\ Result(r).sess = EmptySession
            /\ UNCHANGED <<stock, sales, issued>>
      ]_vars
\* a creation whose INSERT lost to a committed sale with the same number,
\* after it had decremented stock in its session
C3_Witness ==
    \E r \in Reqs : \E i \in DOMAIN sales :
        /\ req[r].kind = "create" /\ req[r].pc = "done" /\ ~req[r].ok
        /\ req[r].msg = "Error creating sale"
        /\ sales[i].sale_number = req[r].number
        /\ nextId > Cardinality(DOMAIN sales) + 1

\* C4: the committed stock of every product is >= 0 in every state, whatever
\* the interleaving of sale creation, cancellation, update_stock,
\* bulk_update_stock and product update.
C4_StockNeverNegative == \A p \in Products : stock[p] >= 0
\* an adjustment below zero refused while the stock is at zero
C4_Witness ==
    \E r \in Reqs :
        /\ req[r].kind = "update_stock" /\ req[r].pc = "done" /\ ~req[r].ok
        /\ req[r].sess[1].has
        /\ stock[1] = 0
        /\ DOMAIN sales # {}

\* C5: the commit of a cancellation of a sale that is not cancelled sets the
\* sale's status to "cancelled" and adds to each product's stock the summed
\* quantity of the sale's items of that product, in that one step; no other
\* step of a cancellation changes the committed stock or the sales.
C5_CancelRestoresStock ==
    [][\A r \in Reqs :
         /\ CancelSucceeds(r) =>
               LET sid == req[r].sale_id IN
               /\ sid \in DOMAIN sales /\ sales[sid].status # "cancelled"
               /\ DOMAIN sales' = DOMAIN sales
               /\ sales'[sid].status = "cancelled"
               /\ sales'[sid].items = sales[sid].items
               /\ \A i \in DOMAIN sales \ {sid} : sales'[i] = sales[i]
               /\ \A p \in Products :
                     stock'[p] = stock[p] + QuantityOf(sales[sid].items, p)
         /\ (Moves(r, "cancel") /\ ~CancelSucceeds(r)) => UNCHANGED <<stock, sales>>
      ]_vars
\* a cancelled sale with two items of one product, its stock back in full
C5_Witness ==
    \E r \in Reqs :
        /\ req[r].kind = "cancel" /\ req[r].pc = "done" /\ req[r].ok
        /\ req[r].sale_id \in DOMAIN sales
        /\ LET its == sales[req[r].sale_id].items
           IN Len(its) = 2 /\ its[1].product_id = its[2].product_id
        /\ sales[req[r].sale_id].status = "cancelled"
        /\ stock[1] = MaxStock

\* the results of a cancellation refused for its sale
C6_Refusals == {"Sale is already cancelled", "Sale not found"}

\* C6: cancelling a sale that is already cancelled is answered "Sale is
\* already cancelled", cancelling an id of no sale is answered "Sale not
\* found", and no step of such a request changes the committed stock or the
\* sales.
C6_CancelRefused ==
    [][\A r \in Reqs :
         /\ (Moves(r, "cancel") /\ req[r].pc = "get") =>
               LET sid == req[r].sale_id IN
               /\ sid \notin DOMAIN sales =>
                     /\ req'[r].pc = "done" /\ ~req'[r].ok
                     /\ req'[r].msg = "Sale not found"
               /\ (sid \in DOMAIN sales /\ sales[sid].status = "cancelled") =>
                     /\ req'[r].pc = "done" /\ ~req'[r].ok
                     /\ req'[r].msg = "Sale is already cancelled"
         /\ (Moves(r, "cancel") /\ (req[r].pc = "done" \/ req'[r].pc = "done")
               /\ Result(r).msg \in C6_Refusals) => UNCHANGED <<stock, sales>>
      ]_vars
\* a second cancellation of a sale, refused
C6_Witness ==
    \E r \in Reqs :
        /\ req[r].kind = "cancel" /\ req[r].pc = "done" /\ ~req[r].ok
        /\ req[r].msg = "Sale is already cancelled"
        /\ req[r].sale_id \in DOMAIN sales
        /\ sales[req[r].sale_id].status = "cancelled"

\* C7: for every persisted sale, total_amount is the sum of the persisted
\* subtotals of its items and grand_total is total_amount + tax_amount -
\* discount_amount, to the cent.
C7_TotalsAddUp ==
    \A i \in DOMAIN sales :
        /\ sales[i].total_amount = SubtotalSum(sales[i].items)
        /\ sales[i].grand_total =
               sales[i].total_amount + sales[i].tax_amount - sales[i].discount_amount

\* the cent c is the exact amount x (in 1/10000 of a cent) rounded half up
C8_Rounds(c, x) == 10000 * c - 5000 <= x /\ x < 10000 * c + 5000
\* the amounts of the worked example: 10 units at 75.00, tax 18, discount 5
C8_Example(it) ==
    (it.quantity = 10 /\ it.unit_price = 7500 /\ it.tax_rate = 18
        /\ it.discount_percent = 5) =>
    /\ it.subtotal = 75000
    /\ it.discount_amount = 3750
    /\ it.tax_amount = 12825
    /\ it.total = 84075
C9_NoDeletions == Len(issued) = Cardinality(DOMAIN sales)

\* C9: with one request at a time and no deletions, the creations with a
\* day's date (the date generate_sale_number read) follow one another and the
\* k-th of them has the sequence part k, zero-padded to at least 3 digits; the
\* dates are days the clock has reached and never decrease from one creation
\* to the next; the numbers of the sales rows are the numbers given.
C9_SequentialNumbers ==
    C9_NoDeletions =>
        /\ \A d \in 1..today :
              LET ofDay == {n \in DOMAIN issued : issued[n].date = d} IN
              ofDay # {} =>
                  LET first == CHOOSE m \in ofDay : \A j \in ofDay : m <= j IN
                  /\ ofDay = first..(first + Cardinality(ofDay) - 1)
                  /\ \A n \in ofDay :
                        LET k == n - first + 1 IN
                        /\ issued[n].seq = Format03d(k)
                        /\ ParseInt(issued[n].seq) = k
                        /\ Len(issued[n].seq) >= PadWidth
        /\ \A n \in DOMAIN issued :
              /\ issued[n].date \in 1..today
              /\ n > 1 => issued[n - 1].date <= issued[n].date
        /\ {sales[i].sale_number : i \in DOMAIN sales} =
              {issued[n] : n \in DOMAIN issued}
\* the 999th and the 1000th sale of the first day, then the first sale of the
\* second
C9_Witness ==
    /\ C9_NoDeletions
    /\ today = 2
    /\ Len(issued) = Pow10(PadWidth) + 1
    /\ issued[Pow10(PadWidth) - 1] = [date |-> 1, seq |-> <<9, 9, 9>>]
    /\ issued[Pow10(PadWidth)] = [date |-> 1, seq |-> <<1, 0, 0, 0>>]
    /\ issued[Pow10(PadWidth) + 1] = [date |-> 2, seq |-> <<0, 0, 1>>]

\* C10: a sale number is never reused: no two committed creations were given
\* the same number, whatever became of their sales (deleted ones included).
C10_NumberNeverReused ==
    \A m, n \in DOMAIN issued : m # n => issued[m] # issued[n]

\* C11: no two sales rows share a sale_number; a creation that reaches its
\* commit with a number a committed sale already has is rejected with an
\* error, and that step changes neither the sales and their items nor the
\* stock of any product and leaves nothing in its session.
C11_DuplicateNumberRejected ==
    /\ [](\A i, j \in DOMAIN sales :
             i # j => sales[i].sale_number # sales[j].sale_number)
    /\ [][\A r \in Reqs :
            (Moves(r, "create") /\ req[r].pc = "commit"
               /\ \E i \in DOMAIN sales : sales[i].sale_number = req[r].number) =>
               /\ req'[r].pc = "done" /\ ~req'[r].ok
               /\ req'[r].msg = "Error creating sale"
               /\ req'[r].sess = EmptySession
               /\ UNCHANGED <<stock, sales, issued>>
         ]_vars
\* two creations were given the same number: one committed, one was rejected
C11_Witness ==
    \E r1, r2 \in Reqs :
        /\ r1 # r2
        /\ req[r1].kind = "create" /\ req[r1].pc = "done" /\ req[r1].ok
        /\ req[r2].kind = "create" /\ req[r2].pc = "done" /\ ~req[r2].ok
        /\ req[r2].msg = "Error creating sale"
        /\ req[r1].number = req[r2].number
        /\ Cardinality({i \in DOMAIN sales : sales[i].sale_number = req[r1].number}) = 1
        /\ nextId = Cardinality(DOMAIN sales) + 2


\* C12: a committing step of a stock adjustment changes the committed stock of
\* its product by its delta, and a committing step of a cancellation changes
\* the committed stock of every product by the quantity of its items, whatever
\* other requests committed on the same product since the request began: the
\* committed stock is the initial stock plus the deltas of the committed
\* operations.
C12_NoLostUpdate ==
    [][\A r \in Reqs :
         /\ (Finishes(r, "update_stock") /\ req'[r].ok) =>
               \A p \in Products :
                   stock'[p] = stock[p] + (IF req[r].items[1].product_id = p
                                           THEN req[r].items[1].quantity ELSE 0)
         /\ CancelSucceeds(r) =>
               \A p \in Products :
                   stock'[p] = stock[p] + QuantityOf(req[r].sale[1].items, p)
      ]_vars


\* C13: a stock adjustment of an existing product by a signed quantity goes on
\* to its commit when stock + quantity >= 0 and is rejected at once when
\* stock + quantity < 0; the adjustment that succeeds sets the committed stock
\* to stock + quantity, sets last_restocked to the time the adjustment took
\* (the current day as it was computed) when the quantity is positive and
\* leaves it as it was when not, and changes no other column and no other
\* product; no other step of an adjustment, a rejected one included, changes
\* the stock or any other column of a product.
C13_StockAdjustment ==
    [][\A r \in Reqs :
         (Moves(r, "update_stock") /\ req[r].items[1].product_id \in DOMAIN stock) =>
            LET p == req[r].items[1].product_id
                quantity == req[r].items[1].quantity
                applied == Finishes(r, "update_stock") /\ req'[r].ok
            IN /\ (req[r].pc = "get" /\ stock[p] + quantity >= 0) =>
                      /\ req'[r].pc = "commit"
                      /\ quantity > 0 => req'[r].sess[p].obj.last_restocked = Some(today)
               /\ (req[r].pc = "get" /\ stock[p] + quantity < 0) =>
                      req'[r].pc = "done" /\ ~req'[r].ok
               /\ applied =>
                      /\ stock' = [stock EXCEPT ![p] = @ + quantity]
                      /\ stock'[p] >= 0
                      /\ products' =
                            [products EXCEPT ![p].last_restocked =
                                IF quantity > 0
                                THEN req[r].sess[p].obj.last_restocked ELSE @]
               /\ ~applied => UNCHANGED <<stock, products>>
      ]_vars
\* a deduction was applied on the second day: the stock is lower and the
\* product still has the last_restocked of the first day
C13_Witness ==
    /\ today = 2
    /\ req[1].kind = "update_stock" /\ req[1].pc = "done" /\ req[1].ok
    /\ req[1].items[1].product_id = 1 /\ req[1].items[1].quantity < 0
    /\ stock[1] = MaxStock + req[1].items[1].quantity
    /\ products[1].last_restocked = Some(1)


\* the quantity a bulk update adds to product p: that of its pair for p, if
\* the pair can be applied to the committed stock
BulkDelta(stock_updates, p) ==
    IF \E k \in DOMAIN stock_updates :
          /\ stock_updates[k].product_id = p
          /\ stock[p] + stock_updates[k].quantity >= 0
    THEN (CHOOSE u \in {stock_updates[k] : k \in DOMAIN stock_updates} :
             u.product_id = p).quantity
    ELSE 0

\* C14: a bulk stock update goes through all its pairs, whatever their
\* results, unless its transaction fails with a server error, and commits
\* once; the commit reports each pair true exactly when its product exists and its
\* stock + quantity >= 0, adds the quantity of every such pair to the stock of
\* its product whether or not another pair failed, and leaves the stock of
\* every other product unchanged; the request is answered as a success
\* exactly when every pair was applied; no other step of it changes a stock.
C14_BulkUpdateIndependent ==
    [][\A r \in Reqs :
         Moves(r, "bulk_update_stock") =>
            LET stock_updates == req[r].items
                results == req'[r].built
                committed == Finishes(r, "bulk_update_stock") /\ results # <<>>
            IN /\ req[r].pc = "items" =>
                     \/ /\ req'[r].pc \in {"items", "commit"}
                        /\ Len(req'[r].built) = Len(req[r].built) + 1
                     \/ /\ req'[r].pc = "done"
                        /\ req'[r].msg = "Internal Server Error"
               /\ committed =>
                     /\ Len(results) = Len(stock_updates)
                     /\ \A k \in DOMAIN stock_updates :
                           LET p == stock_updates[k].product_id IN
                           /\ results[k].product_id = p
                           /\ results[k].ok =
                                 (/\ p \in DOMAIN stock
                                  /\ stock[p] + stock_updates[k].quantity >= 0)
                     /\ stock' = [p \in DOMAIN stock |->
                                     stock[p] + BulkDelta(stock_updates, p)]
                     /\ req'[r].ok = \A k \in DOMAIN results : results[k].ok
               /\ ~committed => UNCHANGED stock
      ]_vars
\* a bulk update of two existing products was committed: the first pair was
\* applied, the second would have made the stock negative and was not
C14_Witness ==
    /\ req[1].kind = "bulk_update_stock" /\ req[1].pc = "done" /\ ~req[1].ok
    /\ Len(req[1].built) = 2
    /\ req[1].built[1].ok /\ ~req[1].built[2].ok
    /\ DOMAIN stock = Products
    /\ stock[req[1].items[1].product_id] = MaxStock + req[1].items[1].quantity
    /\ stock[req[1].items[2].product_id] + req[1].items[2].quantity < 0


\* the margin the prices of a products row call for
MarginOf(row) ==
    IF row.cost_price > 0 THEN Some(margin(row.cost_price, row.selling_price))
    ELSE None

\* C15: the row a product creation commits, and the row a product update
\* commits with another cost_price or selling_price than it had, has the
\* margin (selling_price - cost_price) / cost_price x 100 when its cost_price
\* is greater than 0 and a null margin when its cost_price is 0.
C15_MarginFollowsPrices ==
    [][\A r \in Reqs :
         /\ (Finishes(r, "product_create") /\ req'[r].ok) =>
               \A p \in DOMAIN products' \ DOMAIN products :
                   products'[p].margin = MarginOf(products'[p])
         /\ (Finishes(r, "product_update") /\ req'[r].ok) =>
               \A p \in DOMAIN products :
                   (\/ products'[p].cost_price # products[p].cost_price
                    \/ products'[p].selling_price # products[p].selling_price) =>
                       products'[p].margin = MarginOf(products'[p])
      ]_vars


\* C16: no step of a product update, a product soft-delete, a sale update or a
\* sale delete changes the committed current_stock of any product.
C16_StockChangedOnlyByStockOperations ==
    [][\A r \in Reqs :
         (\E kind \in {"product_update", "product_delete", "sale_update", "sale_delete"} :
             Moves(r, kind)) => UNCHANGED stock
      ]_vars


\* C17, as stated: a successful cancellation sets the sale's payment_status
\* to refunded when it was paid, and leaves it as it was when it was pending,
\* partial or refunded.
C17_CancelKeepsUnpaidStatus ==
    [][\A r \in Reqs :
         CancelSucceeds(r) =>
            LET sid == req[r].sale_id IN
            sales'[sid].payment_status =
                IF sales[sid].payment_status = "paid" THEN "refunded"
                ELSE sales[sid].payment_status
      ]_vars
\* C17, amended: a successful cancellation sets the sale's payment_status to
\* refunded when it was paid and to pending when it was anything else, so
\* that pending stays pending and partial and refunded become pending.
C17_CancelSetsPending ==
    [][\A r \in Reqs :
         CancelSucceeds(r) =>
            LET sid == req[r].sale_id IN
            /\ sales'[sid].status = "cancelled"
            /\ sales'[sid].payment_status =
                  IF sales[sid].payment_status = "paid" THEN "refunded" ELSE "pending"
      ]_vars
\* a sale that was partially paid has been cancelled, and is now pending
C17_Witness ==
    \E r \in Reqs :
        /\ req[r].kind = "cancel" /\ req[r].pc = "done" /\ req[r].ok
        /\ req[r].sale[1].payment_status = "partial"
        /\ sales[req[r].sale_id].status = "cancelled"
        /\ sales[req[r].sale_id].payment_status = "pending"


\* C18: a successful cancellation changes, of the sales and their items, only
\* the status and the payment_status of the cancelled sale: its sale_number,
\* its four totals and its items, every other sale and every sale_items row
\* are as before; it changes the stock of no product its items do not
\* reference, and no other column of any product.
C18_CancelChangesOnlyStatus ==
    [][\A r \in Reqs :
         CancelSucceeds(r) =>
            LET sid == req[r].sale_id IN
            /\ sales' = [sales EXCEPT
                           ![sid].status = sales'[sid].status,
                           ![sid].payment_status = sales'[sid].payment_status]
            /\ sale_items' = sale_items
            /\ \A p \in DOMAIN stock :
                   QuantityOf(sales[sid].items, p) = 0 => stock'[p] = stock[p]
            /\ products' = products
      ]_vars
\* a sale with items and a grand total has been cancelled and has them still
C18_Witness ==
    \E r \in Reqs :
        /\ req[r].kind = "cancel" /\ req[r].pc = "done" /\ req[r].ok
        /\ LET sid == req[r].sale_id IN
           /\ sales[sid].status = "cancelled"
           /\ sales[sid].grand_total > 0
           /\ sales[sid].grand_total = req[r].sale[1].grand_total
           /\ sales[sid].sale_number = req[r].sale[1].sale_number
           /\ Len(sales[sid].items) > 0
           /\ SaleItemRows(sid, req[r].sale[1].items) \subseteq sale_items


\* C19: the sale a creation commits has the requested status and payment
\* method; its payment_status is paid when the method is cash and the status
\* completed, whatever payment_status was requested, and the requested
\* payment_status for every other method and status.
C19_CashCompletedIsPaid ==
    [][\A r \in Reqs :
         CreateSucceeds(r) =>
            LET db_sale == sales'[nextId] IN
            /\ nextId \notin DOMAIN sales
            /\ db_sale.status = req[r].status
            /\ db_sale.payment_method = req[r].payment_method
            /\ db_sale.payment_status =
                  IF req[r].payment_method = "cash" /\ req[r].status = "completed"
                  THEN "paid" ELSE req[r].payment_status
      ]_vars
\* a completed cash sale requested as refunded is stored as paid, beside a
\* cash draft that kept the payment_status it was requested with
C19_Witness ==
    /\ req[1].kind = "create" /\ req[1].pc = "done" /\ req[1].ok
    /\ req[1].payment_method = "cash" /\ req[1].status = "completed"
    /\ req[1].payment_status = "refunded"
    /\ sales[nextId - 1].payment_status = "paid"
    /\ \E i \in DOMAIN sales :
          /\ sales[i].payment_method = "cash" /\ sales[i].status = "draft"
          /\ sales[i].payment_status = "partial"


\* C20: in every state the sale_id of every sale_items row is the id of a
\* sales row, every sales row has at least one sale_items row, and the rows of
\* a sale are those of its items collection: no creation, failed or not, and
\* no update, cancellation or deletion leaves an item without its sale or a
\* sale without items.
C20_ItemsBelongToSales ==
    /\ \A it \in sale_items : it.sale_id \in DOMAIN sales
    /\ \A i \in DOMAIN sales :
          /\ \E it \in sale_items : it.sale_id = i
          /\ {it \in sale_items : it.sale_id = i} = SaleItemRows(i, sales[i].items)
\* a draft sale has been deleted while another sale and its items remain, and
\* no item of the deleted sale is left
C20_Witness ==
    /\ req[1].kind = "sale_delete" /\ req[1].pc = "done" /\ req[1].ok
    /\ req[1].sale_id \notin DOMAIN sales
    /\ \A it \in sale_items : it.sale_id # req[1].sale_id
    /\ \E i \in DOMAIN sales : Cardinality({it \in sale_items : it.sale_id = i}) = 2


\* C21: a product deletion that succeeds sets is_active of its row to false
\* and changes nothing else: no row is removed, no other column and no stock
\* changes; and the commit of a cancellation adds the quantity of the sale's
\* items to the stock of their product whether the product is active or not.
C21_SoftDeleteKeepsRow ==
    [][\A r \in Reqs :
         /\ Moves(r, "product_delete") =>
               /\ UNCHANGED stock
               /\ DOMAIN products' = DOMAIN products
               /\ IF Finishes(r, "product_delete") /\ req'[r].ok
                  THEN products' = [products EXCEPT
                                      ![req[r].items[1].product_id].is_active = FALSE]
                  ELSE UNCHANGED products
         /\ CancelSucceeds(r) =>
               \A p \in DOMAIN stock :
                   stock'[p] = stock[p] + QuantityOf(sales[req[r].sale_id].items, p)
      ]_vars
\* a sale of a product was cancelled after the product had been soft-deleted:
\* the row is there, inactive, with its stock back in full
C21_Witness ==
    \E r \in Reqs :
        /\ req[r].kind = "cancel" /\ req[r].pc = "done" /\ req[r].ok
        /\ sales[req[r].sale_id].status = "cancelled"
        /\ \E p \in DOMAIN stock :
              /\ ~products[p].is_active
              /\ QuantityOf(sales[req[r].sale_id].items, p) > 0
              /\ stock[p] = MaxStock


\* C22: the update of an unknown sale is rejected with "Sale not found", the
\* update of a completed or cancelled sale with "Cannot update <status> sale",
\* and the update of a draft sale goes on to its commit; an update that
\* succeeds was of a sale in status draft; and no step of an update that is
\* not its successful commit changes a sale, an item or a stock.
C22_OnlyDraftUpdated ==
    [][\A r \in Reqs :
         Moves(r, "sale_update") =>
            LET sid == req[r].sale_id
                updated == Finishes(r, "sale_update") /\ req'[r].ok
            IN /\ (req[r].pc = "get" /\ sid \notin DOMAIN sales) =>
                     /\ req'[r].pc = "done" /\ ~req'[r].ok
                     /\ req'[r].msg = "Sale not found"
               /\ (req[r].pc = "get" /\ sid \in DOMAIN sales) =>
                     IF sales[sid].status = "draft"
                     THEN req'[r].pc = "commit"
                     ELSE /\ sales[sid].status \in {"completed", "cancelled"}
                          /\ req'[r].pc = "done" /\ ~req'[r].ok
                          /\ req'[r].msg = "Cannot update " \o sales[sid].status \o " sale"
               /\ updated => sid \in DOMAIN sales /\ sales[sid].status = "draft"
               /\ ~updated => UNCHANGED <<sales, sale_items, stock>>
      ]_vars
\* the update of a cancelled sale was rejected, and the sale is as it was
C22_Witness ==
    \E r \in Reqs :
        /\ req[r].kind = "sale_update" /\ req[r].pc = "done" /\ ~req[r].ok
        /\ req[r].msg = "Cannot update cancelled sale"
        /\ sales[req[r].sale_id].status = "cancelled"


\* a creation in its loop that has come to an item whose product row another
\* transaction holds locked
WaitsFor(r, p) ==
    /\ req[r].kind = "create" /\ req[r].pc = "items"
    /\ req[r].items[req[r].idx].product_id = p
    /\ p \in DOMAIN stock
    /\ LockedByOther(r, p)

\* C23: a sale creation takes its row locks in the order of the request's item
\* list: while it is in its loop or at its commit, the rows it holds locked are
\* those of the items before the one it has come to, whatever their product
\* ids; so two creations naming the same two products in opposite orders can
\* each hold one row and wait for the other (the state of C23_Witness).
C23_LocksInItemOrder ==
    \A r \in Reqs :
        (req[r].kind = "create" /\ req[r].pc \in {"items", "commit"}) =>
            req[r].locks = {req[r].items[k].product_id : k \in 1..(req[r].idx - 1)}
\* two creations each hold the lock of one product and wait for the lock the
\* other holds
C23_Witness ==
    \E r1, r2 \in Reqs : \E p1, p2 \in DOMAIN stock :
        /\ r1 # r2 /\ p1 # p2
        /\ p1 \in req[r1].locks /\ WaitsFor(r1, p2)
        /\ p2 \in req[r2].locks /\ WaitsFor(r2, p1)


\* C24: with requests served one at a time, a deletion comes to its commit
\* exactly when the sale exists in status draft at the request, and the commit,
\* unless the database fails it, removes the sale's row and every item row of
\* the sale and nothing else; a deletion
\* of a completed, cancelled or unknown sale is answered with an error, and no
\* step of it changes a sale, an item or a stock.
C24_OnlyDraftDeleted ==
    [][\A r \in Reqs :
         Moves(r, "sale_delete") =>
            LET sid == req[r].sale_id
                draft == sid \in DOMAIN sales /\ sales[sid].status = "draft"
                deleted == Finishes(r, "sale_delete") /\ req'[r].ok
            IN /\ req[r].pc = "get" =>
                     IF draft THEN req'[r].pc = "commit"
                     ELSE /\ req'[r].pc = "done" /\ ~req'[r].ok
                          /\ req'[r].msg =
                               "Only draft sales can be deleted or sale not found"
               /\ req[r].pc = "commit" =>
                     /\ draft
                     /\ deleted \/ req'[r].msg = "Internal Server Error"
               /\ deleted =>
                     /\ draft
                     /\ sales' = [i \in DOMAIN sales \ {sid} |-> sales[i]]
                     /\ sale_items' = {it \in sale_items : it.sale_id # sid}
                     /\ \E it \in sale_items : it.sale_id = sid
                     /\ UNCHANGED stock
               /\ ~deleted => UNCHANGED <<sales, sale_items, stock>>
      ]_vars
\* the deletion of a completed sale was refused, the sale and its items are
\* still there
C24_Witness ==
    \E r \in Reqs :
        /\ req[r].kind = "sale_delete" /\ req[r].pc = "done" /\ ~req[r].ok
        /\ req[r].sale_id \in DOMAIN sales
        /\ sales[req[r].sale_id].status = "completed"
        /\ \E it \in sale_items : it.sale_id = req[r].sale_id


--------------------------------------------------------------------------
(***************************************************************************)
(* Authentication: POST /auth/register and POST /auth/login.               *)
(***************************************************************************)
MaxLogins == 2

Usernames == {"Ajay", "admin"}
Emails == {"ajay@example.com", "admin@example.com"}
Passwords == {"Test@123", "Secret1"}

\* get_password_hash(password): a value that is not the password and from
\* which verify_password recognises the password
get_password_hash(password) == <<"hash", password>>
\* verify_password(plain_password, hashed_password)
verify_password(plain_password, hashed_password) ==
    hashed_password = get_password_hash(plain_password)

\* db.query(User).filter(User.username == username).first(): the id of the
\* row, or None
get_by_username(username) ==
    IF \E i \in DOMAIN users : users[i].username = username
    THEN Some(CHOOSE i \in DOMAIN users : users[i].username = username)
    ELSE None
\* db.query(User).filter(User.email == email).first()
get_by_email(email) ==
    IF \E i \in DOMAIN users : users[i].email = email
    THEN Some(CHOOSE i \in DOMAIN users : users[i].email = email)
    ELSE None

\* CRUDUser.authenticate: the user of this username, or else of this email,
\* if the password verifies against its hash
authenticate(username, password) ==
    LET user == IF get_by_username(username) # None
                THEN get_by_username(username)
                ELSE get_by_email(username)
    IN IF user = None THEN None
       ELSE IF ~verify_password(password, users[user[1]].hashed_password) THEN None
       ELSE user

\* create_access_token(data={"sub": str(user.id)}, ...): the payload's subject
create_access_token(user_id) == [sub |-> Digits(user_id)]

\* register, and CRUDUser.create for a user whose email and username are free
Register(user) ==
    /\ get_by_email(user.email) = None
    /\ get_by_username(user.username) = None
    /\ users' = Append(users, [username |-> user.username, email |-> user.email,
                               hashed_password |-> get_password_hash(user.password)])
    /\ UNCHANGED <<logins, today, products, sale_items, stock, sales, nextId, req,
                   issued, served>>

\* the answer of login for the user authenticate returned
LoginAnswer(form_data, user) ==
    IF user = None
    THEN [form_data |-> form_data, status_code |-> 401, access_token |-> None]
    ELSE [form_data |-> form_data, status_code |-> 200,
          access_token |-> Some(create_access_token(user[1]))]

\* variant of login: the submitted form goes to authenticate
LoginSubmitted(form_data) ==
    /\ Len(logins) < MaxLogins
    /\ logins' = Append(logins,
                   LoginAnswer(form_data,
                               authenticate(form_data.username, form_data.password)))
    /\ UNCHANGED <<users, today, products, sale_items, stock, sales, nextId, req,
                   issued, served>>

\* login: user_crud.authenticate(db, username="Ajay", password="Test@123")
Login(form_data) ==
    /\ Len(logins) < MaxLogins
    /\ logins' = Append(logins, LoginAnswer(form_data, authenticate("Ajay", "Test@123")))
    /\ UNCHANGED <<users, today, products, sale_items, stock, sales, nextId, req,
                   issued, served>>

AuthRegister ==
    \E u \in Usernames : \E e \in Emails : \E pw \in Passwords :
        Register([username |-> u, email |-> e, password |-> pw])
AuthLogin ==
    \E u \in Usernames \cup Emails \cup {"nobody"} : \E pw \in Passwords \cup {"wrong1"} :
        Login([username |-> u, password |-> pw])

AuthNext == AuthRegister \/ AuthLogin

AuthSpec == Init /\ [][AuthNext]_vars

\* C25: a login is answered with status 200 and a token exactly when the
\* submitted username, taken as a username or else as an email, names a stored
\* user whose hash the submitted password verifies against, and the token's
\* subject is then the id of that user; every other login is answered with
\* status 401 and no token.
C25_TokenOnlyForSubmittedCredentials ==
    [][logins' # logins =>
         LET answer == logins'[Len(logins')]
             form_data == answer.form_data
             user == authenticate(form_data.username, form_data.password)
         IN IF user = None
            THEN answer.status_code = 401 /\ answer.access_token = None
            ELSE /\ answer.status_code = 200
                 /\ answer.access_token = Some([sub |-> Digits(user[1])])
      ]_vars


RECURSIVE QuantityHeld(_, _)
\* the units of product p in the items of the persisted sales with these ids
\* whose status is not cancelled
QuantityHeld(ids, p) ==
    IF ids = {} THEN 0
    ELSE LET i == CHOOSE j \in ids : TRUE
         IN (IF sales[i].status # "cancelled" THEN QuantityOf(sales[i].items, p) ELSE 0)
            + QuantityHeld(ids \ {i}, p)
\* current_stock of product p plus the units of it in sales not cancelled
OnHandOrSold(p) == stock[p] + QuantityHeld(DOMAIN sales, p)

\* C26: with requests served one at a time, no step of a sale creation,
\* update, cancellation or deletion changes, for any product, current_stock
\* plus the quantities of the items of the persisted sales that are not
\* cancelled (so that this sum stays the initial stock plus the accepted
\* adjustment deltas).
C26_StockConservation ==
    [][\A r \in Reqs :
         (\/ Moves(r, "create") \/ Moves(r, "sale_update")
          \/ Moves(r, "cancel") \/ Moves(r, "sale_delete")) =>
            \A p \in DOMAIN stock : OnHandOrSold(p)' = OnHandOrSold(p)
      ]_vars


\* C27: a cancellation that reports success commits on a sale that is not yet
\* cancelled in the database, so that of two concurrent cancellations of one
\* sale at most one succeeds and the quantities go back to the stock once.
C27_RestoredAtMostOnce ==
    [][\A r \in Reqs :
         CancelSucceeds(r) => sales[req[r].sale_id].status # "cancelled"
      ]_vars


--------------------------------------------------------------------------
(***************************************************************************)
(* The life cycle of a sale under concurrent requests: POST /sales,        *)
(* PUT /sales/{id}, POST /sales/{id}/cancel and DELETE /sales/{id}.        *)
(***************************************************************************)
MaxLifeRequests == 3

LifeNewCreateSale ==
    \E r \in Reqs : \E st \in {"draft", "completed"} :
        /\ Accept(r, MaxLifeRequests)
        /\ CreateSaleRequest(r, <<Item(1, 1)>>, st, "cash", "pending")
LifeNewCancel ==
    \E r \in Reqs : Accept(r, MaxLifeRequests) /\ CancelRequest(r, 1)
LifeNewSaleUpdate ==
    \E r \in Reqs : \E u \in SeqSaleUpdates :
        Accept(r, MaxLifeRequests) /\ SaleUpdateRequest(r, 1, u)
LifeNewSaleDelete ==
    \E r \in Reqs : Accept(r, MaxLifeRequests) /\ SaleDeleteRequest(r, 1)

LifeStep(r) ==
    \/ CreateSalePrecheck(r)
    \/ CreateGenerate(r)
    \/ CreateItem(r)
    \/ CreateCommit(r)
    \/ CancelGet(r)
    \/ CancelRestore(r)
    \/ CancelCommit(r)
    \/ SaleUpdateGet(r)
    \/ SaleUpdateCommit(r)
    \/ SaleDeleteGet(r)
    \/ SaleDeleteCommit(r)
    \/ Raise(r)
    \/ Close(r)

LifeNext ==
    \/ LifeNewCreateSale
    \/ LifeNewCancel
    \/ LifeNewSaleUpdate
    \/ LifeNewSaleDelete
    \/ \E r \in Reqs : LifeStep(r)

LifeSpec == Init /\ [][LifeNext]_vars

\* C28: no step changes or removes a sale whose status is cancelled; a sale
\* whose status is completed stays, with status completed or, by the commit of
\* a cancellation, cancelled; so only a draft sale is given another status by
\* an update or removed by a deletion.
C28_StatusMonotone ==
    [][\A i \in DOMAIN sales :
         /\ sales[i].status = "cancelled" =>
               i \in DOMAIN sales' /\ sales'[i] = sales[i]
         /\ sales[i].status = "completed" =>
               /\ i \in DOMAIN sales'
               /\ sales'[i].status \in {"completed", "cancelled"}
               /\ sales'[i].status = "cancelled" =>
                     \E r \in Reqs : CancelSucceeds(r) /\ req[r].sale_id = i
      ]_vars


\* C29: with requests served one at a time, a sale creation comes to its
\* commit only if, for every product, the quantities of all the items of the
\* request for that product add up to at most the product's stock; a creation
\* that succeeds lowers the stock of every product by exactly that sum; and no
\* other step of a creation changes the stock.
C29_RepeatedProductChecked ==
    [][\A r \in Reqs :
         Moves(r, "create") =>
            /\ req[r].pc = "commit" =>
                  \A p \in DOMAIN stock : QuantityOf(req[r].items, p) <= stock[p]
            /\ CreateSucceeds(r) =>
                  \A p \in DOMAIN stock :
                      /\ QuantityOf(req[r].items, p) <= stock[p]
                      /\ stock'[p] = stock[p] - QuantityOf(req[r].items, p)
            /\ ~CreateSucceeds(r) => UNCHANGED stock
      ]_vars
\* a request with two items of one product, each within the stock and
\* together above it, was refused in the loop, and the stock is as it was
C29_Witness ==
    \E r \in Reqs :
        /\ req[r].kind = "create" /\ req[r].pc = "done" /\ ~req[r].ok
        /\ req[r].msg = "Insufficient stock"
        /\ req[r].items = <<Item(1, 1), Item(1, MaxStock)>>
        /\ Len(req[r].built) = 1
        /\ stock[1] = MaxStock


RECURSIVE TotalSum(_)
\* the sum of the persisted totals of these items
TotalSum(items) ==
    IF Len(items) = 0 THEN 0 ELSE Head(items).total + TotalSum(Tail(items))

\* the amounts of a persisted item are within their bounds
C30_ItemBounds(it) ==
    /\ 0 <= it.discount_amount /\ it.discount_amount <= it.subtotal
    /\ it.tax_amount >= 0
    /\ it.total >= 0

\* C30: for every persisted sale, every item has 0 <= discount_amount <=
\* subtotal, tax_amount >= 0 and total >= 0, and the sale's grand_total is
\* >= 0 and is the sum of the totals of its items.
C30_AmountsBounded ==
    \A i \in DOMAIN sales :
        /\ \A k \in DOMAIN sales[i].items : C30_ItemBounds(sales[i].items[k])
        /\ sales[i].grand_total >= 0
        /\ sales[i].grand_total = TotalSum(sales[i].items)

==========================================================================
